---------------------------- MODULE Spec2Model ----------------------------
(***************************************************************************)
(* Calendar cache store of classroom_reservation                           *)
(* (src/utils/calendarStore.ts, the module that starts at line 481) and    *)
(* the callers of its exported functions in the read endpoint              *)
(* (src/unnamed/part_005, handler).                                        *)
(*                                                                         *)
(* The store is one Node.js process: every action below is one run of      *)
(* JavaScript between two awaits (a call up to its first await, or the     *)
(* continuation of an await), so actions interleave exactly where the      *)
(* code suspends.                                                          *)
(***************************************************************************)
EXTENDS Integers, Sequences, FiniteSets, TLC

(***************************************************************************)
(* Bounds of the model.                                                    *)
(***************************************************************************)
\* fetchAndStore invocations that can be in flight at the same time
MaxInv == 2
\* largest value Date.now() takes (time stands still once it is reached)
MaxClock == 2
\* rows the append-only history table can hold
MaxRows == 2
\* shutdownStore calls in the life of one process
MaxShutdowns == 1
\* entries in one fetched calendar
MaxFeedLen == 1

(***************************************************************************)
(* JavaScript values.  null and undefined are records of their own; a      *)
(* timestamp t is Time(t); a handle is Timer(k).  The retries option is a  *)
(* number that need not be an integer: Num(n) holds n as twice its value,  *)
(* so that 1.5 (Number("1.5")) is Half(3); NaN is a value of its own.      *)
(* A property an object does not have is a field the record does not have. *)
(***************************************************************************)
Null == [type |-> "null"]
Undefined == [type |-> "undefined"]
Time(t) == [type |-> "number", value |-> t]
Timer(k) == [type |-> "Timeout", id |-> k]
NaN == [nan |-> TRUE]
Half(k) == [nan |-> FALSE, twice |-> k]
Num(n) == Half(2 * n)

\* i <= retries, for an integer i and a JavaScript number retries
LoopCond(i, retries) == ~retries.nan /\ 2 * i <= retries.twice

\* a variant of IsLast: the comparison is made with the number of the next attempt
IsLastEarly(i, retries) == ~retries.nan /\ 2 * (i + 1) = retries.twice

\* i === retries
IsLast(i, retries) == ~retries.nan /\ 2 * i = retries.twice

\* the default of the retries option: Number(process.env.CALENDAR_FETCH_RETRIES ?? 3)
DefaultRetries == 3

\* 1000 * Math.pow(2, i)
BackoffBase == 1000

RECURSIVE Pow2(_)
Pow2(n) == IF n <= 0 THEN 1 ELSE 2 * Pow2(n - 1)

BackoffDelay(i) == BackoffBase * Pow2(i)

(***************************************************************************)
(* Calendar entries as node-ical delivers them, and formatEvents.          *)
(* A summary is a sequence of one-character strings.                       *)
(***************************************************************************)
Digits == {"0", "1", "2", "3", "4", "5", "6", "7", "8", "9"}
Whitespace == {" ", "\t"}
LineTerminators == {"\n"}

\* s[a..b], empty when b < a
Slice(s, a, b) == [k \in 1..(b - a + 1) |-> s[a + k - 1]]

\* end of the run of characters of set S that starts at position p (p-1 if none)
RECURSIVE RunEnd(_, _, _)
RunEnd(s, p, S) ==
    IF p <= Len(s) /\ s[p] \in S THEN RunEnd(s, p + 1, S) ELSE p - 1

\* end of the run of characters outside S that starts at position p
RECURSIVE RunEndNot(_, _, _)
RunEndNot(s, p, S) ==
    IF p <= Len(s) /\ s[p] \notin S THEN RunEndNot(s, p + 1, S) ELSE p - 1

\* the pattern \[(\d+)\] matches at position p
BracketAt(s, p) ==
    /\ p <= Len(s)
    /\ s[p] = "["
    /\ RunEnd(s, p + 1, Digits) >= p + 1
    /\ RunEnd(s, p + 1, Digits) + 1 <= Len(s)
    /\ s[RunEnd(s, p + 1, Digits) + 1] = "]"

\* summary.match(/\[(\d+)\]\s*(.*)/): the leftmost match, or Null
SummaryMatch(s) ==
    IF \E p \in 1..Len(s) : BracketAt(s, p)
    THEN LET p  == CHOOSE q \in 1..Len(s) :
                       BracketAt(s, q) /\ \A r \in 1..(q - 1) : ~BracketAt(s, r)
             de == RunEnd(s, p + 1, Digits)
             ws == RunEnd(s, de + 2, Whitespace)
             te == RunEndNot(s, ws + 1, LineTerminators)
         IN  [room |-> Slice(s, p + 1, de), eventName |-> Slice(s, ws + 1, te)]
    ELSE Null

\* const [, room, eventName] = event.summary?.match(...) || [null, '', event.summary]
RoomAndName(event) ==
    IF "summary" \notin DOMAIN event
    THEN [room |-> <<>>]
    ELSE IF SummaryMatch(event.summary) = Null
         THEN [room |-> <<>>, eventName |-> event.summary]
         ELSE SummaryMatch(event.summary)

TimeZone == "Asia/Tokyo"

\* the object the map callback returns for one VEVENT entry
\* (subject is undefined, here absent, when the entry has no summary)
FormatEvent(event) ==
    IF "eventName" \in DOMAIN RoomAndName(event)
    THEN [id      |-> event.uid,
          subject |-> RoomAndName(event).eventName,
          room    |-> RoomAndName(event).room,
          start   |-> [dateTime |-> event.start, timeZone |-> TimeZone],
          end     |-> [dateTime |-> event.end, timeZone |-> TimeZone]]
    ELSE [id      |-> event.uid,
          room    |-> RoomAndName(event).room,
          start   |-> [dateTime |-> event.start, timeZone |-> TimeZone],
          end     |-> [dateTime |-> event.end, timeZone |-> TimeZone]]

\* event.start.toISOString() / event.end.toISOString() throws a TypeError
FormatThrows(events) ==
    \E k \in 1..Len(events) :
        /\ events[k].type = "VEVENT"
        /\ ("start" \notin DOMAIN events[k] \/ "end" \notin DOMAIN events[k])

RECURSIVE FilterVEvents(_)
FilterVEvents(events) ==
    IF events = <<>> THEN <<>>
    ELSE IF Head(events).type = "VEVENT"
         THEN <<Head(events)>> \o FilterVEvents(Tail(events))
         ELSE FilterVEvents(Tail(events))

\* a variant of formatEvents: the entries are taken last to first
formatEventsReversed(events) ==
    [k \in 1..Len(FilterVEvents(events)) |->
        FormatEvent(FilterVEvents(events)[Len(FilterVEvents(events)) + 1 - k])]

\* Object.values(events).filter(type === 'VEVENT').map(...)
formatEvents(events) ==
    [k \in 1..Len(FilterVEvents(events)) |-> FormatEvent(FilterVEvents(events)[k])]

(***************************************************************************)
(* The calendars the upstream server can answer with in this model.        *)
(***************************************************************************)
EvA == [type |-> "VEVENT", uid |-> "a", summary |-> <<"[", "1", "]", " ", "M">>,
        start |-> 1, end |-> 2]
EvB == [type |-> "VEVENT", uid |-> "b", summary |-> <<"M">>, start |-> 3, end |-> 4]
EvTZ == [type |-> "VTIMEZONE"]
EvBad == [type |-> "VEVENT", uid |-> "c"]
Entries == {EvA, EvB, EvTZ, EvBad}

Feeds == UNION {[1..n -> Entries] : n \in 0..MaxFeedLen}

\* messages of the errors fetchTextWithTimeout can throw: a non-2xx status, and
\* the abort at timeoutMs (a network error or an exception of the parser takes
\* the same catch with another message)
TransportErrors == {"HTTP 500", "This operation was aborted"}
FormatError == "Cannot read properties of undefined (reading 'toISOString')"

\* values of the retries option a refresh request can carry (fetchRetries=...):
\* -1, 0, 1.5, 2 and a non-numeric string
RefreshRetries == {Num(-1), Num(0), Half(3), Num(2), NaN}

\* values Number(process.env.CALENDAR_FETCH_RETRIES ?? 3) can take: unset, "1",
\* "0" and "1.5"
EnvRetries == {Num(DefaultRetries), Num(1), Num(0), Half(3)}

(***************************************************************************)
(* Calendars for formatEvents alone: one event with any title of up to     *)
(* MaxTitleLen characters (brackets, a digit, a letter, a space), and any   *)
(* mix of up to MaxMixedLen events and time zone definitions.               *)
(***************************************************************************)
MaxTitleLen == 5
MaxMixedLen == 3

TitleChars == {"[", "]", "1", "a", " "}
Titles == UNION {[1..n -> TitleChars] : n \in 0..MaxTitleLen}
Titled(s) == [type |-> "VEVENT", uid |-> "t", summary |-> s, start |-> 1, end |-> 2]
TitledFeeds == {<<Titled(s)>> : s \in Titles}
MixedFeeds == UNION {[1..n -> {EvA, EvB, EvTZ}] : n \in 0..MaxMixedLen}

\* calendars with an event whose DTEND precedes its DTSTART (node-ical parses
\* both dates as they are written)
EvInverted == [type |-> "VEVENT", uid |-> "i", summary |-> <<"M">>, start |-> 4, end |-> 3]
InvertedFeeds == {<<EvInverted>>, <<EvA, EvInverted>>}

(***************************************************************************)
(* State.                                                                  *)
(***************************************************************************)
VARIABLES
    useNeon,        \* configuration: the external store is enabled
    diskWritable,   \* environment: the directory of the snapshot file is writable
    envRetries,     \* configuration: the default of the retries option
    cachedEvents,   \* let cachedEvents: CalendarEvent[]
    lastFetched,    \* let lastFetched: number | null
    intervalHandle, \* let intervalHandle: the handle setInterval returned, or null
    initialized,    \* let initialized
    activeTimers,   \* the interval timers that have not been cleared
    timersStarted,  \* setInterval calls so far
    loadsStarted,   \* loadFromDisk calls so far
    initReturns,    \* initStore calls so far that returned at once (line 784)
    shutdowns,      \* shutdownStore calls so far
    pendingLoads,   \* initStore calls suspended in await loadFromDisk()
    clock,          \* Date.now()
    disk,           \* content of the snapshot file, or Absent
    bak,            \* content of its .bak sibling, or Absent
    pgRows,         \* rows of kv_store_history for the key, oldest first
    inv,            \* the fetchAndStore invocations
    shut,           \* the shutdownStore call in progress
    returned,       \* the list a caller got from getEvents
    readLast,       \* the value a caller got from getLastFetched
    upstream,       \* environment: the calendar the upstream server holds
    req             \* the request the read endpoint is handling

vars == <<useNeon, diskWritable, envRetries, cachedEvents, lastFetched, intervalHandle,
          initialized, activeTimers, timersStarted, loadsStarted, initReturns,
          shutdowns, pendingLoads, clock, disk, bak, pgRows, inv, shut,
          returned, readLast, upstream, req>>

config == <<useNeon, diskWritable, envRetries, upstream>>
memory == <<cachedEvents, lastFetched>>
timerVars == <<intervalHandle, activeTimers, timersStarted>>
initVars == <<initialized, loadsStarted, pendingLoads>>
backends == <<disk, bak, pgRows>>
readVars == <<returned, readLast, req>>

Absent == [type |-> "ENOENT"]
Slots == 1..MaxInv

\* JSON.stringify({ events: cachedEvents, lastFetched }): a null lastFetched is
\* written as JSON null
Stringify(events, fetched) == [events |-> events, lastFetched |-> fetched]

NoResult == [tag |-> "none"]
UndefinedResult == [tag |-> "undefined"]
\* { ok: true, count }
OkResult(count) == [tag |-> "value", ok |-> TRUE, count |-> count]
\* { ok: true, count, keptPrevious: true }
KeptResult(count) ==
    [tag |-> "value", ok |-> TRUE, count |-> count, keptPrevious |-> TRUE]
\* { ok: false, error }
FailResult(msg) == [tag |-> "value", ok |-> FALSE, error |-> msg]

FreeInv ==
    [pc |-> "free", origin |-> "none", retries |-> Num(0), i |-> 0,
     attempts |-> 0, delays |-> <<>>, lastError |-> "", formatted |-> <<>>,
     payload |-> Stringify(<<>>, Null), result |-> NoResult,
     pre |-> Stringify(<<>>, Null), alone |-> TRUE]

InFlight(r) == r.pc \notin {"free", "done"}

\* the slot a new invocation takes
HasFreeSlot == \E p \in Slots : inv[p].pc = "free"
FreeSlot == CHOOSE p \in Slots : inv[p].pc = "free" /\ \A q \in 1..(p - 1) : inv[q].pc # "free"

\* the values Date.now() can return next (time does not go back)
NowValues == {clock} \cup {t \in {clock + 1} : t <= MaxClock}

(***************************************************************************)
(* fetchAndStore (calendarStore.ts 712-773).                               *)
(***************************************************************************)
\* a variant of KeepPrevious: the fetched result always replaces the cache
KeepNever(formatted, cached) == FALSE

\* line 741: the fetched result is empty and a non-empty cache is held
KeepPrevious(formatted, cached) == Len(formatted) = 0 /\ Len(cached) > 0

\* the invocation record of a call: the function runs to its first await
\* (the fetch of attempt 1), or falls through the loop and returns undefined
NewInv(origin, retries, events, fetched, alone) ==
    LET base == [FreeInv EXCEPT !.origin = origin, !.retries = retries, !.i = 1,
                                !.pre = IF alone THEN Stringify(events, fetched)
                                        ELSE FreeInv.pre,
                                !.alone = alone]
    IN  IF LoopCond(1, retries)
        THEN [base EXCEPT !.pc = "fetch", !.attempts = 1]
        ELSE [base EXCEPT !.pc = "done", !.result = UndefinedResult]

\* an invocation in flight that overlaps another operation is no longer alone
Overlapped(f) ==
    [q \in Slots |-> IF InFlight(f[q])
                     THEN [f[q] EXCEPT !.alone = FALSE, !.pre = FreeInv.pre]
                     ELSE f[q]]

\* a variant of Called: a call made while an invocation is in flight joins it
\* and starts no fetch of its own
CalledJoined(origin, retries, events, fetched, loading) ==
    IF \E q \in Slots : InFlight(inv[q])
    THEN Overlapped(inv)
    ELSE [inv EXCEPT ![FreeSlot] = NewInv(origin, retries, events, fetched, loading = 0)]

\* the invocations after a call fetchAndStore(calendarUrl, {retries}) made while
\* the in-memory snapshot is (events, fetched) and `loading` loads are suspended
Called(origin, retries, events, fetched, loading) ==
    [Overlapped(inv) EXCEPT ![FreeSlot] =
        NewInv(origin, retries, events, fetched,
               loading = 0 /\ \A q \in Slots : ~InFlight(inv[q]))]

\* catch (err) of attempt i: the last attempt returns the failure, any other
\* waits for the backoff delay
AttemptFailed(r, msg) ==
    IF IsLast(r.i, r.retries)
    THEN [r EXCEPT !.pc = "done", !.lastError = msg, !.result = FailResult(msg)]
    ELSE [r EXCEPT !.pc = "backoff", !.lastError = msg,
                   !.delays = Append(@, BackoffDelay(r.i))]

\* the text arrived: parse, format, choose the path and call backupExistingStorage
AttemptParsed(r, feed) ==
    IF FormatThrows(feed)
    THEN AttemptFailed(r, FormatError)
    ELSE [r EXCEPT !.formatted = formatEvents(feed),
                   !.pc = IF KeepPrevious(formatEvents(feed), cachedEvents)
                          THEN "keep_stat" ELSE "repl_stat"]

\* await fetchTextWithTimeout(...) settles, the upstream server answering with
\* one of the calendars in feeds or not at all
Fetched(p, feeds) ==
    /\ inv[p].pc = "fetch"
    /\ \/ \E feed \in feeds : inv' = [inv EXCEPT ![p] = AttemptParsed(@, feed)]
       \/ \E msg \in TransportErrors :
              inv' = [inv EXCEPT ![p] = AttemptFailed(@, msg)]
    /\ UNCHANGED <<config, memory, timerVars, initVars, initReturns, shutdowns, clock,
                   backends, shut, readVars>>

FetchResolve(p) == Fetched(p, Feeds)

\* the backoff delay elapsed: i++ and the loop condition
BackoffDone(p) ==
    /\ inv[p].pc = "backoff"
    /\ inv' = [inv EXCEPT ![p] =
                  IF LoopCond(@.i + 1, @.retries)
                  THEN [@ EXCEPT !.pc = "fetch", !.i = @ + 1, !.attempts = @ + 1]
                  ELSE [@ EXCEPT !.pc = "done", !.i = @ + 1, !.result = UndefinedResult]]
    /\ UNCHANGED <<config, memory, timerVars, initVars, initReturns, shutdowns, clock,
                   backends, shut, readVars>>

\* the first await of saveToDisk: pgSet when the external store is enabled
SaveEntry(path) == IF useNeon THEN path \o "_pg" ELSE path \o "_write"

\* a variant of Replaced: the fetched events are added to the cache
Merged(cached, formatted) == cached \o formatted

\* line 762: cachedEvents = formatted
Replaced(cached, formatted) == formatted

\* backupExistingStorage returned.  Kept-previous path: saveToDisk() of the
\* cache as it is.  Replace path: lines 762-764.
AfterBackup(p) ==
    IF inv[p].pc \in {"keep_stat", "keep_copy"}
    THEN /\ inv' = [inv EXCEPT ![p].pc = SaveEntry("keep"),
                               ![p].payload = Stringify(cachedEvents, lastFetched)]
         /\ UNCHANGED <<memory, clock>>
    ELSE \E t \in NowValues :
         /\ cachedEvents' = Replaced(cachedEvents, inv[p].formatted)
         /\ lastFetched' = Time(t)
         /\ clock' = t
         /\ inv' = [inv EXCEPT ![p].pc = SaveEntry("repl"),
                               ![p].payload = Stringify(inv[p].formatted, Time(t))]

\* a variant of BackupStat: a missing snapshot file ends the invocation with an
\* error and nothing is written
BackupStatStrict(p) ==
    /\ inv[p].pc \in {"keep_stat", "repl_stat"}
    /\ inv' = [inv EXCEPT ![p] =
                 IF disk = Absent
                 THEN [@ EXCEPT !.pc = "done", !.result = FailResult("ENOENT")]
                 ELSE [@ EXCEPT !.pc = IF @ = "keep_stat" THEN "keep_copy" ELSE "repl_copy"]]
    /\ UNCHANGED <<config, memory, clock, timerVars, initVars, initReturns, shutdowns,
                   backends, shut, readVars>>

\* backupExistingStorage: await fs.promises.stat(storageFile)
BackupStat(p) ==
    /\ inv[p].pc \in {"keep_stat", "repl_stat"}
    /\ \/ /\ disk # Absent
          /\ inv' = [inv EXCEPT ![p].pc =
                        IF @ = "keep_stat" THEN "keep_copy" ELSE "repl_copy"]
          /\ UNCHANGED <<memory, clock>>
       \/ AfterBackup(p)
    /\ UNCHANGED <<config, timerVars, initVars, initReturns, shutdowns,
                   backends, shut, readVars>>

\* backupExistingStorage: await fs.promises.copyFile(storageFile, bakPath)
BackupCopy(p) ==
    /\ inv[p].pc \in {"keep_copy", "repl_copy"}
    /\ \E ok \in BOOLEAN : bak' = IF ok THEN disk ELSE bak
    /\ AfterBackup(p)
    /\ UNCHANGED <<config, timerVars, initVars, initReturns, shutdowns,
                   disk, pgRows, shut, readVars>>

\* a variant of PgInserted: the row of the key is replaced (an upsert)
PgUpserted(rows, payload, ok) == IF ok THEN <<payload>> ELSE rows

\* pgSet: INSERT INTO kv_store_history, or no client / a failed query
PgInserted(rows, payload, ok) == IF ok THEN Append(rows, payload) ELSE rows

\* a variant of SavePg: a failed insert ends the invocation with an error and
\* the snapshot file is not written
SavePgStrict(p) ==
    /\ inv[p].pc \in {"keep_pg", "repl_pg"}
    /\ \E ok \in BOOLEAN :
          /\ ok => Len(pgRows) < MaxRows
          /\ pgRows' = PgInserted(pgRows, inv[p].payload, ok)
          /\ inv' = [inv EXCEPT ![p] =
                       IF ok
                       THEN [@ EXCEPT !.pc = IF @ = "keep_pg" THEN "keep_write"
                                                              ELSE "repl_write"]
                       ELSE [@ EXCEPT !.pc = "done",
                                      !.result = FailResult("pgInsert failed")]]
    /\ UNCHANGED <<config, memory, timerVars, initVars, initReturns, shutdowns, clock,
                   disk, bak, shut, readVars>>

\* saveToDisk: await pgSet('public-calendar', payload)
SavePg(p) ==
    /\ inv[p].pc \in {"keep_pg", "repl_pg"}
    /\ \E ok \in BOOLEAN :
          /\ ok => Len(pgRows) < MaxRows
          /\ pgRows' = PgInserted(pgRows, inv[p].payload, ok)
    /\ inv' = [inv EXCEPT ![p].pc = IF @ = "keep_pg" THEN "keep_write" ELSE "repl_write"]
    /\ UNCHANGED <<config, memory, timerVars, initVars, initReturns, shutdowns, clock,
                   disk, bak, shut, readVars>>

\* fs.promises.writeFile(file, payload), or mkdir / writeFile rejects
Written(file, payload, ok) == IF ok THEN payload ELSE file

\* lines 751 and 766: the count is read from cachedEvents when saveToDisk returned
Finished(r) ==
    IF r.pc = "keep_write"
    THEN [r EXCEPT !.pc = "done", !.result = KeptResult(Len(cachedEvents))]
    ELSE [r EXCEPT !.pc = "done", !.result = OkResult(Len(cachedEvents))]

\* a variant of SaveWrite: a write that fails makes fetchAndStore return an
\* error result
SaveWriteFatal(p) ==
    /\ inv[p].pc \in {"keep_write", "repl_write"}
    /\ \E ok \in BOOLEAN :
          /\ ok => diskWritable
          /\ disk' = Written(disk, inv[p].payload, ok)
          /\ inv' = [inv EXCEPT ![p] =
                       IF ok THEN Finished(@)
                       ELSE [@ EXCEPT !.pc = "done",
                                      !.result = FailResult("EACCES")]]
    /\ UNCHANGED <<config, memory, timerVars, initVars, initReturns, shutdowns, clock,
                   bak, pgRows, shut, readVars>>

\* saveToDisk: await mkdir and await writeFile, then the return of fetchAndStore
SaveWrite(p) ==
    /\ inv[p].pc \in {"keep_write", "repl_write"}
    /\ \E ok \in BOOLEAN :
          /\ ok => diskWritable
          /\ disk' = Written(disk, inv[p].payload, ok)
    /\ inv' = [inv EXCEPT ![p] = Finished(@)]
    /\ UNCHANGED <<config, memory, timerVars, initVars, initReturns, shutdowns, clock,
                   bak, pgRows, shut, readVars>>

\* the read endpoint handles no request
NoRequest ==
    [pc |-> "idle", query |-> <<>>, events |-> <<>>, slot |-> 0, fetches |-> 0,
     pre |-> <<>>, response |-> [status |-> 0]]

\* a variant of Unhandled: the rejection of r.ok on undefined is caught by no
\* caller
UnhandledAnywhere(r) ==
    r.pc = "done" /\ r.result = UndefinedResult

\* r.ok in the .then callbacks of initStore (lines 791-793, 798-800) throws on
\* undefined, and the promise of .then has no rejection handler
Unhandled(r) ==
    r.pc = "done" /\ r.result = UndefinedResult /\ r.origin \in {"initStore", "tick"}

\* the process terminates (what Node.js does with an unhandled rejection when the
\* host registers no handler for it): the module state, the timers and the
\* calls in progress are gone, the backends stay
ProcessExit ==
    /\ cachedEvents' = <<>>
    /\ lastFetched' = Null
    /\ intervalHandle' = Null
    /\ initialized' = FALSE
    /\ activeTimers' = {}
    /\ timersStarted' = 0
    /\ loadsStarted' = 0
    /\ shutdowns' = 0
    /\ pendingLoads' = 0
    /\ inv' = [p \in Slots |-> FreeInv]
    /\ shut' = [pc |-> "idle", payload |-> Stringify(<<>>, Null)]
    /\ returned' = [list |-> <<>>, shared |-> FALSE, held |-> FALSE]
    /\ readLast' = Null
    /\ req' = NoRequest

\* the caller's callback takes the result: it logs a failure (initStore), answers
\* or logs (handler); an unhandled rejection is logged by the host or ends the
\* process
Settle(p) ==
    /\ inv[p].pc = "done"
    /\ \/ /\ inv' = [inv EXCEPT ![p] = FreeInv]
          /\ UNCHANGED <<memory, timerVars, initVars, shutdowns, shut, readVars>>
       \/ /\ Unhandled(inv[p])
          /\ ProcessExit
    /\ UNCHANGED <<config, initReturns, clock, backends>>

(***************************************************************************)
(* loadFromDisk and initStore (calendarStore.ts 629-657, 783-802).         *)
(***************************************************************************)
\* what pgGet('public-calendar') can return: the latest history row, or null
\* (no row, no client, or a failed query)
PgGetResults ==
    {Null} \cup {pgRows[k] : k \in {Len(pgRows)} \ {0}}

\* a text that is not JSON: a foreign or cut-off file, a string value in the
\* history table
Garbage == [type |-> "garbage"]

\* JSON.parse succeeds on the content (a row value that is already an object
\* needs no parse)
Parses(content) == "type" \notin DOMAIN content

\* parsed.events || []
EventsOr(parsed) == IF "events" \in DOMAIN parsed THEN parsed.events ELSE <<>>

\* a variant of LastFetchedOr: parsed.lastFetched ?? null
LastFetchedRaw(parsed, t) ==
    IF "lastFetched" \notin DOMAIN parsed THEN Null ELSE parsed.lastFetched

\* parsed.lastFetched ?? Date.now()
LastFetchedOr(parsed, t) ==
    IF "lastFetched" \notin DOMAIN parsed \/ parsed.lastFetched = Null
    THEN Time(t) ELSE parsed.lastFetched

\* a variant of LoadFromDisk: the snapshot file is read first, the external store
\* only when there is no readable file
LoadFromDiskFirst(raw, t) ==
    IF disk # Absent /\ Parses(disk)
    THEN [events |-> EventsOr(disk), lastFetched |-> LastFetchedOr(disk, t),
          read |-> {"disk"}]
    ELSE IF useNeon /\ raw # Null /\ Parses(raw)
         THEN [events |-> EventsOr(raw), lastFetched |-> LastFetchedOr(raw, t),
               read |-> {"disk", "pg"}]
         ELSE [events |-> cachedEvents, lastFetched |-> lastFetched,
               read |-> {"disk"} \cup {b \in {"pg"} : useNeon}]

\* a variant of LoadFromDisk: the cache is cleared before the backends are read
LoadFromDiskClearing(raw, t) ==
    IF useNeon /\ raw # Null /\ Parses(raw)
    THEN [events |-> EventsOr(raw), lastFetched |-> LastFetchedOr(raw, t),
          read |-> {"pg"}]
    ELSE IF disk # Absent /\ Parses(disk)
         THEN [events |-> EventsOr(disk), lastFetched |-> LastFetchedOr(disk, t),
               read |-> {"disk"} \cup {b \in {"pg"} : useNeon}]
         ELSE [events |-> <<>>, lastFetched |-> Null,
               read |-> {"disk"} \cup {b \in {"pg"} : useNeon}]

\* the in-memory snapshot after loadFromDisk, pgGet having returned raw and
\* Date.now() returning t, and the backends the call consulted.  A value that
\* does not parse, like a missing file, leaves the snapshot as it is.
LoadFromDisk(raw, t) ==
    IF useNeon /\ raw # Null /\ Parses(raw)
    THEN [events |-> EventsOr(raw), lastFetched |-> LastFetchedOr(raw, t),
          read |-> {"pg"}]
    ELSE IF disk # Absent /\ Parses(disk)
         THEN [events |-> EventsOr(disk), lastFetched |-> LastFetchedOr(disk, t),
               read |-> {"disk"} \cup {b \in {"pg"} : useNeon}]
         ELSE [events |-> cachedEvents, lastFetched |-> lastFetched,
               read |-> {"disk"} \cup {b \in {"pg"} : useNeon}]

\* a variant of AlreadyInitialized: the flag is not consulted
NeverInitialized == FALSE

\* line 784: if (initialized) return
AlreadyInitialized == initialized

\* a variant of NeedsInitialFetch: the initial fetch is started whatever was loaded
FetchAlways(events) == TRUE

\* line 789: kick off the initial fetch if no cache exists
NeedsInitialFetch(events) == Len(events) = 0

\* initStore from the return of loadFromDisk on: the initial fetch is started
\* and not awaited, then setInterval
LoadAndContinue(raw, loading) ==
    \E t \in NowValues :
        LET snap == LoadFromDisk(raw, t)
        IN  /\ NeedsInitialFetch(snap.events) => HasFreeSlot
            /\ cachedEvents' = snap.events
            /\ lastFetched' = snap.lastFetched
            /\ clock' = IF snap.lastFetched = Time(t) THEN t ELSE clock
            /\ inv' = IF NeedsInitialFetch(snap.events)
                      THEN Called("initStore", envRetries, snap.events,
                                  snap.lastFetched, loading)
                      ELSE Overlapped(inv)
            /\ timersStarted' = timersStarted + 1
            /\ intervalHandle' = Timer(timersStarted + 1)
            /\ activeTimers' = activeTimers \cup {timersStarted + 1}

\* a call of initStore.  Without the external store loadFromDisk has no await
\* that suspends it (existsSync, readFileSync), so the call runs through.
InitStoreCall ==
    IF AlreadyInitialized
    THEN /\ initReturns' = TRUE
         /\ UNCHANGED <<memory, timerVars, initVars, clock, inv>>
    ELSE /\ loadsStarted <= MaxShutdowns + 1
         /\ initReturns' = initReturns
         /\ initialized' = TRUE
         /\ loadsStarted' = loadsStarted + 1
         /\ IF useNeon
            THEN /\ pendingLoads' = pendingLoads + 1
                 /\ inv' = Overlapped(inv)
                 /\ UNCHANGED <<memory, timerVars, clock>>
            ELSE /\ pendingLoads' = pendingLoads
                 /\ LoadAndContinue(Null, pendingLoads)

\* initStore called by a caller the model does not follow
InitStore ==
    /\ InitStoreCall
    /\ UNCHANGED <<config, shutdowns, backends, shut, readVars>>

\* await pgGet(...) of a suspended initStore call settles
LoadResolve ==
    /\ pendingLoads > 0
    /\ pendingLoads' = pendingLoads - 1
    /\ \E raw \in PgGetResults : LoadAndContinue(raw, pendingLoads - 1)
    /\ UNCHANGED <<config, initialized, loadsStarted, initReturns, shutdowns,
                   backends, shut, readVars>>

\* the interval callback of an active timer: fetchAndStore(calendarUrl)
Tick(k) ==
    /\ k \in activeTimers
    /\ HasFreeSlot
    /\ inv' = Called("tick", envRetries, cachedEvents, lastFetched, pendingLoads)
    /\ UNCHANGED <<config, memory, timerVars, initVars, initReturns, shutdowns, clock,
                   backends, shut, readVars>>

(***************************************************************************)
(* The callers in the read endpoint (part_005 35-143), after their         *)
(* await initStore(...) returned.                                          *)
(***************************************************************************)
\* lines 72-80: a forced refresh with the fetchRetries of the query, if any
ForcedRefresh(retries) ==
    /\ initialized
    /\ HasFreeSlot
    /\ inv' = Called("refresh", retries, cachedEvents, lastFetched, pendingLoads)
    /\ UNCHANGED <<config, memory, timerVars, initVars, initReturns, shutdowns, clock,
                   backends, shut, readVars>>

\* the retries of the cold-cache fetch (line 92)
ColdRetries == 1

\* lines 86-92: a read that finds the cache empty
ColdFetch ==
    /\ initialized
    /\ Len(cachedEvents) = 0
    /\ HasFreeSlot
    /\ inv' = Called("cold", Num(ColdRetries), cachedEvents, lastFetched, pendingLoads)
    /\ UNCHANGED <<config, memory, timerVars, initVars, initReturns, shutdowns, clock,
                   backends, shut, readVars>>

(***************************************************************************)
(* shutdownStore (804-811).                                                *)
(***************************************************************************)
\* a variant of ShutdownStore: the cache is emptied once its payload is taken
ShutdownStoreClearing ==
    /\ shutdowns < MaxShutdowns
    /\ shut.pc = "idle"
    /\ shutdowns' = shutdowns + 1
    /\ activeTimers' = IF intervalHandle # Null
                       THEN activeTimers \ {intervalHandle.id} ELSE activeTimers
    /\ intervalHandle' = Null
    /\ initialized' = FALSE
    /\ shut' = [pc |-> IF useNeon THEN "pg" ELSE "write",
                payload |-> Stringify(cachedEvents, lastFetched)]
    /\ cachedEvents' = <<>>
    /\ lastFetched' = Null
    /\ UNCHANGED <<config, timersStarted, loadsStarted, pendingLoads,
                   initReturns, clock, backends, inv, readVars>>

ShutdownStore ==
    /\ shutdowns < MaxShutdowns
    /\ shut.pc = "idle"
    /\ shutdowns' = shutdowns + 1
    /\ activeTimers' = IF intervalHandle # Null
                       THEN activeTimers \ {intervalHandle.id} ELSE activeTimers
    /\ intervalHandle' = Null
    /\ initialized' = FALSE
    /\ shut' = [pc |-> IF useNeon THEN "pg" ELSE "write",
                payload |-> Stringify(cachedEvents, lastFetched)]
    /\ UNCHANGED <<config, memory, timersStarted, loadsStarted, pendingLoads,
                   initReturns, clock, backends, inv, readVars>>

ShutdownPg ==
    /\ shut.pc = "pg"
    /\ \E ok \in BOOLEAN :
          /\ ok => Len(pgRows) < MaxRows
          /\ pgRows' = PgInserted(pgRows, shut.payload, ok)
    /\ shut' = [shut EXCEPT !.pc = "write"]
    /\ UNCHANGED <<config, memory, timerVars, initVars, initReturns, shutdowns, clock,
                   disk, bak, inv, readVars>>

ShutdownWrite ==
    /\ shut.pc = "write"
    /\ \E ok \in BOOLEAN :
          /\ ok => diskWritable
          /\ disk' = Written(disk, shut.payload, ok)
    /\ shut' = [shut EXCEPT !.pc = "idle"]
    /\ UNCHANGED <<config, memory, timerVars, initVars, initReturns, shutdowns, clock,
                   bak, pgRows, inv, readVars>>

(***************************************************************************)
(* getEvents and getLastFetched (775-781).                                 *)
(***************************************************************************)
\* a variant of getEvents: return cachedEvents, the store's own array
getEventsShared == [list |-> cachedEvents, shared |-> TRUE]

\* cachedEvents.slice(): a new array with the same elements; shared tells
\* whether the array handed out is the store's own array
getEvents == [list |-> cachedEvents, shared |-> FALSE]

getLastFetched == lastFetched

NoList == [list |-> <<>>, shared |-> FALSE, held |-> FALSE]

GetEvents ==
    /\ ~returned.held
    /\ returned' = [list |-> getEvents.list, shared |-> getEvents.shared, held |-> TRUE]
    /\ readLast' = getLastFetched
    /\ UNCHANGED <<config, memory, timerVars, initVars, initReturns, shutdowns, clock,
                   backends, inv, shut, req>>

\* what a caller can do to the list it holds: push, shift, reverse
Mutations(list) ==
    {Append(list, FormatEvent(EvB)),
     IF list = <<>> THEN list ELSE Tail(list),
     [k \in 1..Len(list) |-> list[Len(list) + 1 - k]]}

\* the caller changes its list, then drops it
MutateReturned ==
    /\ returned.held
    /\ \E l \in Mutations(returned.list) :
          /\ Len(l) <= MaxFeedLen + 1
          /\ returned' = [returned EXCEPT !.list = l]
          /\ cachedEvents' = IF returned.shared THEN l ELSE cachedEvents
    /\ UNCHANGED <<config, lastFetched, timerVars, initVars, initReturns, shutdowns,
                   clock, backends, inv, shut, readLast, req>>

DropReturned ==
    /\ returned.held
    /\ returned' = NoList
    /\ readLast' = Null
    /\ UNCHANGED <<config, memory, timerVars, initVars, initReturns, shutdowns, clock,
                   backends, inv, shut, req>>

(***************************************************************************)
(* The read endpoint (part_005 35-143), one request at a time.  A query    *)
(* parameter or header is Undefined or a string Str(s); Day(n) is a date   *)
(* string that Date.parse reads as the instant n; the fetchRetries         *)
(* parameter is given as the number Number(...) makes of it.  The times of *)
(* the events are instants too (toISOString and new Date are inverse).     *)
(***************************************************************************)
Str(s) == [type |-> "string", s |-> s]
Day(n) == [type |-> "string", s |-> "day", n |-> n]

\* a query value that is not undefined and not the empty string
Truthy(v) == v # Undefined /\ v.s # ""

\* String.prototype.toLowerCase on the strings of the model
ToLowerCase(s) ==
    CASE s = "False" -> "false"
      [] s = "SECRET" -> "secret"
      [] OTHER -> s

\* line 54
IsRefresh(q) ==
    Truthy(q.refresh) /\ q.refresh.s # "0" /\ ToLowerCase(q.refresh.s) # "false"

\* line 58: tokenFromQuery || tokenFromHeader
SuppliedToken(q) == IF Truthy(q.token) THEN q.token ELSE q.headerToken

\* a variant of Authorized: the tokens are compared without regard to case
AuthorizedFolded(q) ==
    Truthy(q.configuredToken)
    => /\ Truthy(SuppliedToken(q))
       /\ ToLowerCase(SuppliedToken(q).s) = ToLowerCase(q.configuredToken.s)

\* lines 60-67: no token configured, or the supplied token is the configured one
Authorized(q) ==
    Truthy(q.configuredToken)
    => /\ Truthy(SuppliedToken(q))
       /\ SuppliedToken(q).s = q.configuredToken.s

\* line 73 and line 713: the retries of a forced refresh
RefreshRetriesOf(q) ==
    IF q.fetchRetries = Undefined THEN envRetries ELSE q.fetchRetries

\* lines 109-115: the Date of a query value, or null
parseDateQuery(v) ==
    IF ~Truthy(v) THEN Null
    ELSE IF "n" \in DOMAIN v THEN Time(v.n) ELSE Null

\* line 120
BadDates(q) ==
    \/ Truthy(q.start) /\ parseDateQuery(q.start) = Null
    \/ Truthy(q.end) /\ parseDateQuery(q.end) = Null

\* a variant of Overlaps: an event that touches a bound is left out
OverlapsStrictly(ev, startDate, endDate) ==
    /\ ~(startDate # Null /\ ev.end.dateTime <= startDate.value)
    /\ ~(endDate # Null /\ ev.start.dateTime >= endDate.value)

\* lines 125-131: the filter callback
Overlaps(ev, startDate, endDate) ==
    /\ ~(startDate # Null /\ ev.end.dateTime < startDate.value)
    /\ ~(endDate # Null /\ ev.start.dateTime > endDate.value)

\* line 124: formatedevents.filter(...)
RangeFilter(events, startDate, endDate) ==
    LET Keep(ev) == Overlaps(ev, startDate, endDate)
    IN  SelectSeq(events, Keep)

\* lines 125-126: ev.start.dateTime or ev.end.dateTime throws a TypeError on an
\* event without start or end
FilterThrows(events) ==
    \E k \in 1..Len(events) :
        "start" \notin DOMAIN events[k] \/ "end" \notin DOMAIN events[k]

\* lines 136-142: the response of the catch block (error is the fixed message
\* of line 139, details the message of the exception)
ErrorText == "error"
FilterError == "Cannot read properties of undefined (reading 'dateTime')"
Failure(message) == [status |-> 500, error |-> ErrorText, details |-> message]

\* a variant of Answer: the handler has no catch block, an exception ends it
\* without a response
AnswerUncaught(q, events) ==
    IF BadDates(q)
    THEN [status |-> 400]
    ELSE IF FilterThrows(events)
         THEN [status |-> 0]
         ELSE [status |-> 200,
               value |-> RangeFilter(events, parseDateQuery(q.start),
                                     parseDateQuery(q.end)),
               fetchedAt |-> getLastFetched]

\* lines 106-142: the response to a read of the list events
Answer(q, events) ==
    IF BadDates(q)
    THEN [status |-> 400]
    ELSE IF FilterThrows(events)
         THEN Failure(FilterError)
         ELSE [status |-> 200,
               value |-> RangeFilter(events, parseDateQuery(q.start),
                                     parseDateQuery(q.end)),
               fetchedAt |-> getLastFetched]

\* line 82
RefreshStarted == [status |-> 202, ok |-> TRUE, message |-> "Refresh started"]

\* a request arrives (PUBLIC_CALENDAR_URL is set): the handler runs to
\* await calendarStore.initStore(calendarUrl), initStore to its first await.
\* pc is "load" when this call of initStore is suspended in loadFromDisk and
\* "init" when it has returned (at once, line 784, or without a suspending
\* await)
Arrive(q) ==
    /\ req.pc = "idle"
    /\ InitStoreCall
    /\ req' = [NoRequest EXCEPT
                 !.pc = IF ~AlreadyInitialized /\ useNeon THEN "load" ELSE "init",
                 !.query = q,
                 !.fetches = Cardinality({p \in Slots : /\ inv[p].pc = "free"
                                                        /\ inv'[p].pc # "free"}),
                 !.pre = <<cachedEvents, lastFetched, disk, bak, pgRows>>]
    /\ UNCHANGED <<config, shutdowns, backends, shut, returned, readLast>>

\* a request arrives and PUBLIC_CALENDAR_URL is not set (lines 41-45)
ArriveUnconfigured ==
    /\ req.pc = "idle"
    /\ req' = [NoRequest EXCEPT !.pc = "done", !.response = [status |-> 400]]
    /\ UNCHANGED <<config, memory, timerVars, initVars, initReturns, shutdowns, clock,
                   backends, inv, shut, returned, readLast>>

\* initStore returned: lines 53-95, up to the response or to the await of the
\* race between the cold-cache fetch and its timeout
Handle ==
    /\ \/ req.pc = "init"
       \/ req.pc = "load" /\ pendingLoads = 0
    /\ IF IsRefresh(req.query)
       THEN IF Authorized(req.query)
            THEN /\ HasFreeSlot
                 /\ inv' = Called("refresh", RefreshRetriesOf(req.query),
                                  cachedEvents, lastFetched, pendingLoads)
                 /\ req' = [req EXCEPT !.pc = "done", !.fetches = @ + 1,
                                       !.slot = FreeSlot,
                                       !.response = RefreshStarted]
            ELSE /\ req' = [req EXCEPT !.pc = "done", !.response = [status |-> 401]]
                 /\ inv' = inv
       ELSE IF Len(getEvents.list) = 0
            THEN /\ HasFreeSlot
                 /\ inv' = Called("cold", Num(ColdRetries), cachedEvents, lastFetched,
                                  pendingLoads)
                 /\ req' = [req EXCEPT !.pc = "race", !.fetches = @ + 1,
                                       !.slot = FreeSlot, !.events = getEvents.list]
            ELSE /\ req' = [req EXCEPT !.pc = "done", !.events = getEvents.list,
                                       !.response = Answer(req.query, getEvents.list)]
                 /\ inv' = inv
    /\ UNCHANGED <<config, memory, timerVars, initVars, initReturns, shutdowns, clock,
                   backends, shut, returned, readLast>>

\* lines 95-98: what the handler reads once the race is decided by r
AfterRace(r) ==
    IF r.tag = "value" /\ r.ok THEN getEvents.list ELSE req.events

\* a variant of GuardTimeout: there is no timeout promise, the handler waits
\* for the fetch
GuardWaits == FALSE /\ UNCHANGED vars

\* the race is won by the timeout promise: r = { ok: false, error: 'timeout' }
GuardTimeout ==
    /\ req.pc = "race"
    /\ req' = [req EXCEPT !.pc = "done",
                          !.response = Answer(req.query, AfterRace(FailResult("timeout")))]
    /\ UNCHANGED <<config, memory, timerVars, initVars, initReturns, shutdowns, clock,
                   backends, inv, shut, returned, readLast>>

\* the race is won by the cold-cache fetch, which returned
GuardFetched ==
    /\ req.pc = "race"
    /\ inv[req.slot].pc = "done"
    /\ inv[req.slot].origin = "cold"
    /\ req' = [req EXCEPT !.pc = "done",
                          !.events = AfterRace(inv[req.slot].result),
                          !.response = Answer(req.query, AfterRace(inv[req.slot].result))]
    /\ inv' = [inv EXCEPT ![req.slot] = FreeInv]
    /\ UNCHANGED <<config, memory, timerVars, initVars, initReturns, shutdowns, clock,
                   backends, shut, returned, readLast>>

\* the response is sent; the endpoint takes the next request
Forget ==
    /\ req.pc = "done"
    /\ req' = NoRequest
    /\ UNCHANGED <<config, memory, timerVars, initVars, initReturns, shutdowns, clock,
                   backends, inv, shut, returned, readLast>>

\* the callbacks of an invocation the handler does not wait for
SettleDetached(p) ==
    /\ ~(req.pc = "race" /\ req.slot = p)
    /\ Settle(p)

(***************************************************************************)
(* The store after module load, and its steps.                             *)
(***************************************************************************)
Init ==
    /\ useNeon \in BOOLEAN
    /\ diskWritable \in BOOLEAN
    /\ envRetries \in EnvRetries
    /\ cachedEvents = <<>>
    /\ lastFetched = Null
    /\ intervalHandle = Null
    /\ initialized = FALSE
    /\ activeTimers = {}
    /\ timersStarted = 0
    /\ loadsStarted = 0
    /\ initReturns = FALSE
    /\ shutdowns = 0
    /\ pendingLoads = 0
    /\ clock = 1
    /\ disk = Absent
    /\ bak = Absent
    /\ pgRows = <<>>
    /\ inv = [p \in Slots |-> FreeInv]
    /\ shut = [pc |-> "idle", payload |-> Stringify(<<>>, Null)]
    /\ returned = NoList
    /\ readLast = Null
    /\ upstream = <<>>
    /\ req = NoRequest

Next ==
    \/ InitStore
    \/ LoadResolve
    \/ \E k \in 1..(MaxShutdowns + 2) : Tick(k)
    \/ \E retries \in RefreshRetries : ForcedRefresh(retries)
    \/ ColdFetch
    \/ \E p \in Slots : FetchResolve(p)
    \/ \E p \in Slots : BackoffDone(p)
    \/ \E p \in Slots : BackupStat(p)
    \/ \E p \in Slots : BackupCopy(p)
    \/ \E p \in Slots : SavePg(p)
    \/ \E p \in Slots : SaveWrite(p)
    \/ \E p \in Slots : Settle(p)
    \/ ShutdownStore
    \/ ShutdownPg
    \/ ShutdownWrite
    \/ GetEvents
    \/ MutateReturned
    \/ DropReturned

Spec == Init /\ [][Next]_vars

(***************************************************************************)
(* Environments.  The specifications below run the same actions in         *)
(* environments small enough to explore completely.                        *)
(***************************************************************************)
NoneInFlight == \A p \in Slots : inv[p].pc = "free"

\* callers that wait for one fetchAndStore to return before the next starts
SoloInitStore == NoneInFlight /\ InitStore
SoloTick == NoneInFlight /\ \E k \in 1..(MaxShutdowns + 2) : Tick(k)
SoloForcedRefresh == NoneInFlight /\ \E retries \in RefreshRetries : ForcedRefresh(retries)
SoloColdFetch == NoneInFlight /\ ColdFetch

\* a deployment whose snapshot directory is read-only and that has no
\* external store: nothing is ever persisted
NoBackend == ~useNeon /\ ~diskWritable

(***************************************************************************)
(* Overlapping fetchAndStore invocations (initial fetch, timer ticks,      *)
(* cold-cache reads), one attempt each, nothing persisted.                 *)
(***************************************************************************)
InitOverlap == Init /\ NoBackend /\ envRetries = Num(ColdRetries)

NextOverlap ==
    \/ InitStore
    \/ \E k \in 1..(MaxShutdowns + 2) : Tick(k)
    \/ ColdFetch
    \/ \E p \in Slots : FetchResolve(p)
    \/ \E p \in Slots : BackupStat(p)
    \/ \E p \in Slots : SaveWrite(p)
    \/ \E p \in Slots : Settle(p)

SpecOverlap == InitOverlap /\ [][NextOverlap]_vars

(***************************************************************************)
(* The retry loop: every value of the retries option, one invocation at a  *)
(* time, nothing persisted.                                                *)
(***************************************************************************)
InitRetry == Init /\ NoBackend

NextRetry ==
    \/ SoloInitStore
    \/ SoloTick
    \/ SoloForcedRefresh
    \/ SoloColdFetch
    \/ \E p \in Slots : FetchResolve(p)
    \/ \E p \in Slots : BackoffDone(p)
    \/ \E p \in Slots : BackupStat(p)
    \/ \E p \in Slots : SaveWrite(p)
    \/ \E p \in Slots : Settle(p)

SpecRetry == InitRetry /\ [][NextRetry]_vars

\* every await of fetchAndStore settles: the fetch by its timeout, the delay
\* and the file operations by themselves
FairRetry ==
    /\ SpecRetry
    /\ \A p \in Slots :
          /\ WF_vars(FetchResolve(p))
          /\ WF_vars(BackoffDone(p))
          /\ WF_vars(BackupStat(p))
          /\ WF_vars(SaveWrite(p))

(***************************************************************************)
(* initStore and shutdownStore with one backend, the external store        *)
(* (loadFromDisk suspends in pgGet) or the snapshot file.  shutdownStore   *)
(* is called when no load and no fetch is in progress, initStore when no   *)
(* shutdownStore is.                                                       *)
(***************************************************************************)
InitLifecycle == Init /\ useNeon # diskWritable /\ envRetries = Num(ColdRetries)

QuietInitStore == shut.pc = "idle" /\ InitStore
QuietShutdownStore == NoneInFlight /\ pendingLoads = 0 /\ ShutdownStore

NextLifecycle ==
    \/ QuietInitStore
    \/ LoadResolve
    \/ \E p \in Slots : FetchResolve(p)
    \/ \E p \in Slots : BackupStat(p)
    \/ \E p \in Slots : BackupCopy(p)
    \/ \E p \in Slots : SavePg(p)
    \/ \E p \in Slots : SaveWrite(p)
    \/ \E p \in Slots : Settle(p)
    \/ QuietShutdownStore
    \/ ShutdownPg
    \/ ShutdownWrite

SpecLifecycle == InitLifecycle /\ [][NextLifecycle]_vars

(***************************************************************************)
(* Readers of the store.                                                   *)
(***************************************************************************)
NextReads ==
    \/ SoloInitStore
    \/ SoloTick
    \/ \E p \in Slots : FetchResolve(p)
    \/ \E p \in Slots : BackupStat(p)
    \/ \E p \in Slots : SaveWrite(p)
    \/ \E p \in Slots : Settle(p)
    \/ GetEvents
    \/ MutateReturned
    \/ DropReturned

SpecReads == InitOverlap /\ [][NextReads]_vars

(***************************************************************************)
(* A process that starts with backends an earlier process left behind.     *)
(***************************************************************************)
\* the module state after module load (lines 601-604), no call made yet
FreshProcess ==
    /\ cachedEvents = <<>>
    /\ lastFetched = Null
    /\ intervalHandle = Null
    /\ initialized = FALSE
    /\ activeTimers = {}
    /\ timersStarted = 0
    /\ loadsStarted = 0
    /\ initReturns = FALSE
    /\ shutdowns = 0
    /\ pendingLoads = 0
    /\ clock = 1
    /\ inv = [p \in Slots |-> FreeInv]
    /\ shut = [pc |-> "idle", payload |-> Stringify(<<>>, Null)]
    /\ returned = NoList
    /\ readLast = Null
    /\ req = NoRequest

\* documents saveToDisk wrote earlier: a fetched snapshot (at time 0, before
\* this process), and the snapshot of a store that never fetched
OldDoc == Stringify(formatEvents(<<EvA>>), Time(0))
NullDoc == Stringify(<<>>, Null)
\* a document without an event list
NoEventsDoc == [lastFetched |-> Time(0)]

SeedFiles == {Absent, OldDoc, NullDoc, NoEventsDoc, Garbage}
SeedRows == {<<>>} \cup {<<d>> : d \in {OldDoc, NullDoc, NoEventsDoc, Garbage}}

(***************************************************************************)
(* The operations that are not fetchAndStore, next to the initial fetch:   *)
(* initStore, shutdownStore and the readers, with the snapshot file as the *)
(* backend.                                                                *)
(***************************************************************************)
InitFrame ==
    /\ FreshProcess
    /\ upstream = <<>>
    /\ useNeon = FALSE
    /\ diskWritable = TRUE
    /\ envRetries = Num(ColdRetries)
    /\ disk \in {Absent, OldDoc}
    /\ bak = Absent
    /\ pgRows = <<>>

NextFrame ==
    \/ QuietInitStore
    \/ \E p \in Slots : FetchResolve(p)
    \/ \E p \in Slots : BackupStat(p)
    \/ \E p \in Slots : BackupCopy(p)
    \/ \E p \in Slots : SaveWrite(p)
    \/ \E p \in Slots : Settle(p)
    \/ QuietShutdownStore
    \/ ShutdownWrite
    \/ GetEvents
    \/ DropReturned

SpecFrame == InitFrame /\ [][NextFrame]_vars

(***************************************************************************)
(* Overlapping timer ticks in a process that found the snapshot file of an *)
(* earlier process, or none; the file cannot be written.                   *)
(***************************************************************************)
InitRace ==
    /\ FreshProcess
    /\ upstream = <<>>
    /\ useNeon = FALSE
    /\ diskWritable = FALSE
    /\ envRetries = Num(ColdRetries)
    /\ disk \in {Absent, OldDoc}
    /\ bak = Absent
    /\ pgRows = <<>>

NextRace ==
    \/ InitStore
    \/ \E k \in 1..(MaxShutdowns + 2) : Tick(k)
    \/ \E p \in Slots : FetchResolve(p)
    \/ \E p \in Slots : BackupStat(p)
    \/ \E p \in Slots : BackupCopy(p)
    \/ \E p \in Slots : SaveWrite(p)
    \/ \E p \in Slots : Settle(p)

SpecRace == InitRace /\ [][NextRace]_vars

(***************************************************************************)
(* A deployment that persists to the snapshot file only: one invocation at *)
(* a time (the initial fetch, then timer ticks), a file that is there or   *)
(* not at start, copies and writes that succeed or fail.                    *)
(***************************************************************************)
InitBackup ==
    /\ FreshProcess
    /\ upstream = <<>>
    /\ useNeon = FALSE
    /\ diskWritable = TRUE
    /\ envRetries = Num(ColdRetries)
    /\ disk \in {Absent, OldDoc}
    /\ bak = Absent
    /\ pgRows = <<>>

NextBackup ==
    \/ InitStore
    \/ SoloTick
    \/ \E p \in Slots : FetchResolve(p)
    \/ \E p \in Slots : BackupStat(p)
    \/ \E p \in Slots : BackupCopy(p)
    \/ \E p \in Slots : SaveWrite(p)
    \/ \E p \in Slots : Settle(p)

SpecBackup == InitBackup /\ [][NextBackup]_vars

(***************************************************************************)
(* A process started on backends in any condition: the external store      *)
(* enabled or not, with no row, a snapshot row or an unreadable row; the   *)
(* snapshot file absent, a snapshot or unreadable, in a directory that     *)
(* cannot be written.  initStore and the initial fetch.                    *)
(***************************************************************************)
InitLoad ==
    /\ FreshProcess
    /\ upstream = <<>>
    /\ useNeon \in BOOLEAN
    /\ diskWritable = FALSE
    /\ envRetries = Num(ColdRetries)
    /\ disk \in SeedFiles
    /\ bak = Absent
    /\ pgRows \in SeedRows

NextLoad ==
    \/ QuietInitStore
    \/ LoadResolve
    \/ \E p \in Slots : FetchResolve(p)
    \/ \E p \in Slots : BackupStat(p)
    \/ \E p \in Slots : BackupCopy(p)
    \/ \E p \in Slots : SavePg(p)
    \/ \E p \in Slots : SaveWrite(p)
    \/ \E p \in Slots : Settle(p)

SpecLoad == InitLoad /\ [][NextLoad]_vars

(***************************************************************************)
(* A deployment with both backends: the external store enabled and a       *)
(* writable snapshot directory, inserts and file writes that succeed or    *)
(* fail; initStore and its initial fetch.                                  *)
(***************************************************************************)
InitWriteThrough ==
    /\ FreshProcess
    /\ upstream = <<>>
    /\ useNeon = TRUE
    /\ diskWritable = TRUE
    /\ envRetries = Num(ColdRetries)
    /\ disk = Absent
    /\ bak = Absent
    /\ pgRows = <<>>

NextWriteThrough ==
    \/ QuietInitStore
    \/ LoadResolve
    \/ \E p \in Slots : FetchResolve(p)
    \/ \E p \in Slots : BackupStat(p)
    \/ \E p \in Slots : SavePg(p)
    \/ \E p \in Slots : SaveWrite(p)
    \/ \E p \in Slots : Settle(p)

SpecWriteThrough == InitWriteThrough /\ [][NextWriteThrough]_vars

(***************************************************************************)
(* A process started on backends that hold nothing readable, then shut     *)
(* down and initialized again: every load and every file write fails, an   *)
(* insert into the external store fails or not.                            *)
(***************************************************************************)
InitFailing ==
    /\ FreshProcess
    /\ upstream = <<>>
    /\ useNeon \in BOOLEAN
    /\ diskWritable = FALSE
    /\ envRetries = Num(ColdRetries)
    /\ disk \in {Absent, Garbage}
    /\ bak = Absent
    /\ pgRows \in {<<>>, <<Garbage>>}

NextFailing ==
    \/ NextLoad
    \/ QuietShutdownStore
    \/ ShutdownPg
    \/ ShutdownWrite

SpecFailing == InitFailing /\ [][NextFailing]_vars

(***************************************************************************)
(* The same deployment with a process that can be killed while writeFile   *)
(* of saveToDisk is in progress.  writeFile opens the snapshot file itself *)
(* with flag 'w' (the file is truncated) and then writes the payload into  *)
(* it: the file is left as it was (killed before the open), truncated or   *)
(* partly written (killed during the write), or complete.                  *)
(***************************************************************************)
Truncated == [type |-> "truncated"]

WriteInterrupted(p) ==
    /\ inv[p].pc \in {"keep_write", "repl_write"}
    /\ diskWritable
    /\ disk' \in {disk, Truncated, inv[p].payload}
    /\ ProcessExit
    /\ UNCHANGED <<config, initReturns, clock, bak, pgRows>>

NextInterrupt ==
    \/ NextBackup
    \/ \E p \in Slots : WriteInterrupted(p)

SpecInterrupt == InitBackup /\ [][NextInterrupt]_vars

(***************************************************************************)
(* The same deployment with backups that succeed (stat finds the file that *)
(* is there, copyFile copies it), started on no file or on a file left by  *)
(* an earlier process, then shut down.                                      *)
(***************************************************************************)
BackupStatOk(p) ==
    BackupStat(p) /\ (disk # Absent => inv'[p].pc \in {"keep_copy", "repl_copy"})

BackupCopyOk(p) == BackupCopy(p) /\ bak' = disk

InitOverwrite ==
    /\ FreshProcess
    /\ upstream = <<>>
    /\ useNeon = FALSE
    /\ diskWritable = TRUE
    /\ envRetries = Num(ColdRetries)
    /\ disk \in {Absent, OldDoc, NullDoc}
    /\ bak = Absent
    /\ pgRows = <<>>

NextOverwrite ==
    \/ QuietInitStore
    \/ SoloTick
    \/ \E p \in Slots : FetchResolve(p)
    \/ \E p \in Slots : BackupStatOk(p)
    \/ \E p \in Slots : BackupCopyOk(p)
    \/ \E p \in Slots : SaveWrite(p)
    \/ \E p \in Slots : Settle(p)
    \/ QuietShutdownStore
    \/ ShutdownWrite

SpecOverwrite == InitOverwrite /\ [][NextOverwrite]_vars

(***************************************************************************)
(* formatEvents on any title and any mix of entries: the initial fetch of  *)
(* a store without backend, the upstream server holding a calendar of      *)
(* TitledFeeds, MixedFeeds or InvertedFeeds.                               *)
(***************************************************************************)
InitFormat ==
    /\ FreshProcess
    /\ upstream \in TitledFeeds \cup MixedFeeds \cup InvertedFeeds
    /\ useNeon = FALSE
    /\ diskWritable = FALSE
    /\ envRetries = Num(ColdRetries)
    /\ disk = Absent
    /\ bak = Absent
    /\ pgRows = <<>>

\* the fetch settles with the calendar the upstream server holds, or fails
FetchUpstream(p) == Fetched(p, {upstream})

NextFormat ==
    \/ SoloInitStore
    \/ \E p \in Slots : FetchUpstream(p)
    \/ \E p \in Slots : BackupStat(p)
    \/ \E p \in Slots : SaveWrite(p)
    \/ \E p \in Slots : Settle(p)

SpecFormat == InitFormat /\ [][NextFormat]_vars

(***************************************************************************)
(* shutdownStore called at any time, also while the load of an initStore   *)
(* call is suspended in pgGet.                                             *)
(***************************************************************************)
InitShutdown == Init /\ useNeon /\ ~diskWritable /\ envRetries = Num(ColdRetries)

NextShutdown ==
    \/ InitStore
    \/ LoadResolve
    \/ SoloTick
    \/ \E p \in Slots : FetchResolve(p)
    \/ \E p \in Slots : BackupStat(p)
    \/ \E p \in Slots : SavePg(p)
    \/ \E p \in Slots : SaveWrite(p)
    \/ \E p \in Slots : Settle(p)
    \/ ShutdownStore
    \/ ShutdownPg
    \/ ShutdownWrite

SpecShutdown == InitShutdown /\ [][NextShutdown]_vars

(***************************************************************************)
(* Properties.                                                             *)
(***************************************************************************)

\* C1: a fetchAndStore invocation that ran alone, whose fetched calendar formatted
\* to zero events while the cache held events, returns {ok: true, count,
\* keptPrevious: true} with count the size of the cache, and at its return
\* cachedEvents and lastFetched are what they were at the call.
C1_AloneKeepsPrevious ==
    [][\A p \in Slots :
          (/\ inv[p].pc \notin {"free", "done"}
           /\ inv'[p].pc = "done"
           /\ inv'[p].alone
           /\ inv'[p].result.tag = "value"
           /\ inv'[p].result.ok
           /\ Len(inv'[p].formatted) = 0
           /\ Len(inv'[p].pre.events) > 0)
          => /\ inv'[p].result = KeptResult(Len(inv'[p].pre.events))
             /\ cachedEvents' = inv'[p].pre.events
             /\ lastFetched' = inv'[p].pre.lastFetched]_vars

\* an invocation that ran alone has returned the kept-previous result
C1_Witness ==
    \E p \in Slots :
        /\ inv[p].pc = "done"
        /\ inv[p].alone
        /\ Len(inv[p].formatted) = 0
        /\ Len(inv[p].pre.events) = 1
        /\ inv[p].result = KeptResult(1)
        /\ cachedEvents = inv[p].pre.events
        /\ lastFetched = inv[p].pre.lastFetched

\* C2: under every interleaving of fetchAndStore invocations, once
\* cachedEvents is non-empty no step makes it empty.
C2_NeverEmptied ==
    [][Len(cachedEvents) > 0 => Len(cachedEvents') > 0]_vars

\* C3: an invocation all of whose attempts failed has returned {ok: false,
\* error} with the message of its last failure, and cachedEvents and
\* lastFetched are what they were at the call.
C3_AllFailedReturnsError ==
    \A p \in Slots :
        (/\ inv[p].pc = "done"
         /\ inv[p].attempts >= 1
         /\ ~(inv[p].result.tag = "value" /\ inv[p].result.ok))
        => /\ inv[p].result = FailResult(inv[p].lastError)
           /\ inv[p].alone => /\ cachedEvents = inv[p].pre.events
                              /\ lastFetched = inv[p].pre.lastFetched

\* C4: for every value of the retries option, an invocation that has returned
\* has returned a result value with an ok flag, never undefined.
C4_AlwaysResultValue ==
    \A p \in Slots :
        inv[p].pc = "done" =>
            inv[p].result.tag = "value" /\ "ok" \in DOMAIN inv[p].result

\* C5: with retries an integer n >= 1 an invocation makes at most n attempts,
\* exactly n when it returns a failure, starts a new attempt only after a failed
\* one (so none after a successful one), and every invocation that is fetching
\* eventually returns a result value.
C5_BoundedAttempts ==
    /\ [](\A p \in Slots :
            (/\ inv[p].pc # "free"
             /\ ~inv[p].retries.nan
             /\ inv[p].retries.twice % 2 = 0
             /\ inv[p].retries.twice >= 2)
            => /\ 2 * inv[p].attempts <= inv[p].retries.twice
               /\ inv[p].pc = "done" =>
                     /\ inv[p].result.tag = "value"
                     /\ ~inv[p].result.ok => 2 * inv[p].attempts = inv[p].retries.twice)
    /\ [][\A p \in Slots :
            (/\ inv[p].pc # "free"
             /\ inv'[p].pc # "free"
             /\ inv'[p].attempts > inv[p].attempts)
            => inv[p].pc = "backoff" /\ inv[p].lastError # ""]_vars
    /\ \A p \in Slots :
          (/\ inv[p].pc = "fetch"
           /\ inv[p].retries.twice % 2 = 0)
          ~> (inv[p].pc = "done" /\ inv[p].result.tag = "value")

\* an invocation with retries = 3 has returned the failure after three attempts
C5_Witness ==
    \E p \in Slots :
        /\ inv[p].pc = "done"
        /\ inv[p].retries = Num(DefaultRetries)
        /\ inv[p].attempts = DefaultRetries
        /\ inv[p].result = FailResult(inv[p].lastError)

\* C6: the delay after failed attempt i is 1000 * 2^i, each delay is twice the
\* one before it, and an invocation that has returned waited one delay fewer
\* than it made attempts (a delay between attempts only, none after the last).
C6_DelaysBetweenAttempts ==
    \A p \in Slots :
        inv[p].pc # "free" =>
            /\ \A k \in 1..Len(inv[p].delays) : inv[p].delays[k] = BackoffBase * Pow2(k)
            /\ \A k \in 1..(Len(inv[p].delays) - 1) :
                   inv[p].delays[k + 1] = 2 * inv[p].delays[k]
            /\ (inv[p].pc = "done" /\ inv[p].attempts >= 1)
                  => Len(inv[p].delays) = inv[p].attempts - 1

\* C7: initStore calls without a shutdownStore in between perform one load and
\* start one timer, and a call made while initialized is true changes nothing
\* of the store.
C7_InitStoreIdempotent ==
    /\ [](/\ loadsStarted <= shutdowns + 1
          /\ timersStarted + pendingLoads = loadsStarted
          /\ shutdowns = 0 => Cardinality(activeTimers) <= 1)
    /\ [][(AlreadyInitialized /\ initReturns' # initReturns)
          => UNCHANGED <<memory, timerVars, initVars, clock, backends, inv, shut>>]_vars

\* initStore has been called again while initialized: one load, one timer
C7_Witness ==
    /\ initReturns
    /\ initialized
    /\ shutdowns = 0
    /\ loadsStarted = 1
    /\ timersStarted = 1
    /\ activeTimers = {1}
    /\ intervalHandle = Timer(1)

\* C8: the step of initStore that follows the load starts the timer; it starts
\* exactly one fetchAndStore, left in flight, when the cache is empty after the
\* load, and none when it is not.
C8_InitialFetchAfterLoad ==
    [][timersStarted' = timersStarted + 1 =>
          LET started == {p \in Slots : inv[p].pc = "free" /\ inv'[p].pc # "free"}
          IN  /\ intervalHandle' = Timer(timersStarted')
              /\ timersStarted' \in activeTimers'
              /\ IF Len(cachedEvents') = 0
                 THEN /\ Cardinality(started) = 1
                      /\ \A p \in started : /\ inv'[p].origin = "initStore"
                                            /\ inv'[p].pc = "fetch"
                 ELSE started = {}]_vars

\* initStore has loaded a snapshot with events, started its second timer and
\* no fetch
C8_Witness ==
    /\ initialized
    /\ timersStarted = 2
    /\ pendingLoads = 0
    /\ intervalHandle = Timer(2)
    /\ Len(cachedEvents) > 0
    /\ \A p \in Slots : inv[p].pc = "free"

\* C9: the callback that takes the result of a timer tick's fetchAndStore that
\* did not succeed leaves every active timer active.
C9_TimerSurvivesFailure ==
    [][\A p \in Slots :
          (/\ inv[p].origin = "tick"
           /\ inv[p].pc = "done"
           /\ ~(inv[p].result.tag = "value" /\ inv[p].result.ok)
           /\ inv'[p].pc # "done")
          => activeTimers \subseteq activeTimers']_vars

\* C10: a step of a reader (getEvents and getLastFetched, a change of the
\* returned list, dropping it) leaves the in-memory snapshot, the flags, the
\* timers, the backends and the invocations unchanged; getEvents returns the
\* current events and getLastFetched the current lastFetched.
C10_PureReads ==
    [][(returned' # returned \/ readLast' # readLast)
       => /\ UNCHANGED <<memory, timerVars, initVars, backends, inv, shut>>
          /\ (~returned.held /\ returned'.held)
                => returned'.list = cachedEvents /\ readLast' = lastFetched]_vars

\* a caller has added an element to the list it got while the cache holds one
C10_Witness ==
    /\ returned.held
    /\ Len(returned.list) = 2
    /\ Len(cachedEvents) = 1
    /\ readLast = lastFetched

\* C11: once shutdownStore has completed and initStore has not been called
\* again, the timer handle is null, initialized is false and no timer is left
\* that could start a fetchAndStore; shutdownStore does not change the in-memory
\* snapshot.
C11_ShutdownStopsTimer ==
    /\ []((shutdowns >= 1 /\ shut.pc = "idle" /\ ~initialized)
          => (intervalHandle = Null /\ activeTimers = {}))
    /\ [][(shutdowns' # shutdowns \/ shut' # shut) => UNCHANGED memory]_vars

\* C12 as stated: the in-memory snapshot changes only in a step of
\* fetchAndStore.
C12_OnlyFetchMutates ==
    [][memory' # memory
       => \E p \in Slots : /\ inv[p].pc \in {"repl_stat", "repl_copy"}
                           /\ inv'[p].pc \in {"repl_pg", "repl_write"}]_vars

\* C12, amended: the in-memory snapshot changes only in the assignment of
\* fetchAndStore (lines 762-763) and in the load of initStore (loadFromDisk);
\* shutdownStore, getEvents, getLastFetched and the other steps leave it
\* unchanged.
C12_OnlyFetchAndLoadMutate ==
    [][memory' # memory
       => \/ \E p \in Slots : /\ inv[p].pc \in {"repl_stat", "repl_copy"}
                              /\ inv'[p].pc \in {"repl_pg", "repl_write"}
          \/ timersStarted' = timersStarted + 1]_vars

\* initStore has loaded the snapshot an earlier process wrote
C12_Witness ==
    /\ initialized
    /\ loadsStarted = 1
    /\ timersStarted = 1
    /\ cachedEvents = OldDoc.events
    /\ lastFetched = OldDoc.lastFetched

\* C13: the in-memory snapshot is always a whole one: it is the initial empty
\* snapshot until something sets it, and every step that changes it sets
\* cachedEvents to the complete formatted result of one invocation and
\* lastFetched to the time of that assignment, or sets both from one backend
\* document in the load of initStore.
C13_WholeSnapshot ==
    /\ [](lastFetched = Null => cachedEvents = <<>>)
    /\ [][memory' # memory
          => \/ \E p \in Slots :
                   /\ inv[p].pc \in {"repl_stat", "repl_copy"}
                   /\ inv'[p].pc \in {"repl_pg", "repl_write"}
                   /\ cachedEvents' = inv[p].formatted
                   /\ lastFetched' = Time(clock')
                   /\ inv'[p].payload = Stringify(cachedEvents', lastFetched')
             \/ /\ timersStarted' = timersStarted + 1
                /\ \E doc \in {disk} \cup {pgRows[k] : k \in {Len(pgRows)} \ {0}} :
                      /\ Parses(doc)
                      /\ cachedEvents' = EventsOr(doc)
                      /\ lastFetched' = LastFetchedOr(doc, clock')]_vars

\* two invocations overlapped and fetched different calendars; the snapshot is
\* the whole result of the one that assigned last
C13_Witness ==
    \E p, q \in Slots :
        /\ inv[p].pc = "done"
        /\ inv[p].result = OkResult(1)
        /\ inv[q].pc = "repl_write"
        /\ ~inv[q].alone
        /\ Len(inv[p].formatted) = 1
        /\ Len(inv[q].formatted) = 1
        /\ inv[p].formatted # inv[q].formatted
        /\ cachedEvents = inv[q].formatted
        /\ lastFetched = inv[q].payload.lastFetched

\* C14: a timer tick that comes while an invocation is in flight starts an
\* invocation of its own, at its first fetch attempt, and leaves the one in
\* flight where it is; an invocation that assigns sets cachedEvents to its own
\* result whatever the other invocations did and whenever they started.
C14_NoSingleFlight ==
    /\ [](\A k \in activeTimers :
            ((\E q \in Slots : InFlight(inv[q])) /\ HasFreeSlot)
            => ENABLED (/\ Tick(k)
                        /\ inv'[FreeSlot].pc = "fetch"
                        /\ inv'[FreeSlot].attempts = 1
                        /\ \A q \in Slots : InFlight(inv[q]) => inv'[q].pc = inv[q].pc))
    /\ [][\A p \in Slots :
            (/\ inv[p].pc \in {"repl_stat", "repl_copy"}
             /\ inv'[p].pc \in {"repl_pg", "repl_write"})
            => cachedEvents' = inv[p].formatted]_vars

\* the initial fetch, started first, assigned after the tick that started
\* later: the snapshot is the result of the initial fetch
C14_Witness ==
    \E p, q \in Slots :
        /\ inv[p].origin = "initStore"
        /\ inv[p].pc = "repl_write"
        /\ inv[q].origin = "tick"
        /\ inv[q].pc \in {"repl_write", "done"}
        /\ Len(inv[p].formatted) > 0
        /\ Len(inv[q].formatted) > 0
        /\ inv[q].formatted # inv[p].formatted
        /\ cachedEvents = inv[p].formatted
        /\ lastFetched = inv[p].payload.lastFetched

\* C15: within one invocation that reaches persistence, on the replace path
\* and on the kept-previous path, the write stage of saveToDisk is entered only
\* from the backup (stat, then copy when the file exists); the .bak file
\* changes only in the copy that ends the backup and the snapshot file only in
\* the write that ends the invocation; whatever the backup did (file missing,
\* copy failed, copy done) the invocation goes on to the write, which can then
\* be performed.
C15_BackupBeforeWrite ==
    /\ [][\A p \in Slots :
            /\ (/\ inv'[p].pc \in {"keep_pg", "keep_write", "repl_pg", "repl_write"}
                /\ inv[p].pc \notin {"keep_pg", "keep_write", "repl_pg", "repl_write"})
               => inv[p].pc \in {"keep_stat", "repl_stat", "keep_copy", "repl_copy"}
            /\ (inv[p].pc \in {"keep_stat", "repl_stat"} /\ inv'[p] # inv[p])
               => /\ inv'[p].pc \in {"keep_copy", "repl_copy",
                                      "keep_pg", "keep_write", "repl_pg", "repl_write"}
                  /\ disk = Absent => inv'[p].pc \notin {"keep_copy", "repl_copy"}
            /\ (inv[p].pc \in {"keep_copy", "repl_copy"} /\ inv'[p] # inv[p])
               => inv'[p].pc \in {"keep_pg", "keep_write", "repl_pg", "repl_write"}]_vars
    /\ [][bak' # bak
          => \E p \in Slots :
                /\ inv[p].pc \in {"keep_copy", "repl_copy"}
                /\ inv'[p].pc \in {"keep_pg", "keep_write", "repl_pg", "repl_write"}]_vars
    /\ [][disk' # disk
          => \E p \in Slots : /\ inv[p].pc \in {"keep_write", "repl_write"}
                              /\ inv'[p].pc = "done"]_vars
    /\ [](\A p \in Slots :
            inv[p].pc \in {"keep_write", "repl_write"}
            => ENABLED (SaveWrite(p) /\ disk' = inv[p].payload))

\* a kept-previous invocation has written the snapshot file, and the .bak file
\* does not hold the content the file had (no file, or a copy that failed)
C15_Witness ==
    \E p \in Slots :
        /\ inv[p].pc = "done"
        /\ inv[p].result = KeptResult(1)
        /\ disk = inv[p].payload
        /\ bak = Absent

\* C16: with backups succeeding, whenever an existing snapshot file is
\* overwritten with different content, the .bak file holds the content the
\* snapshot file had immediately before that overwrite.
C16_BackupHoldsPrevious ==
    [][(disk # Absent /\ disk' # disk) => (bak = disk /\ bak' = disk)]_vars

\* C17: the snapshot file is always absent or a complete document, also when
\* the process is interrupted during saveToDisk.
C17_FileAlwaysComplete == disk = Absent \/ Parses(disk)

\* C18: on load the external store comes first: when it is enabled and pgGet
\* returns a row that parses, the snapshot is set from that row (an empty
\* list when the row has no event list) and the snapshot file is not read;
\* the file is read only when the external store is disabled, returns
\* nothing (unavailable, no row) or returns a value that does not parse; the
\* external store is not consulted when it is disabled.
C18_LoadPriority ==
    \A raw \in PgGetResults : \A t \in NowValues :
        /\ (useNeon /\ raw # Null /\ Parses(raw))
           => /\ LoadFromDisk(raw, t).read = {"pg"}
              /\ LoadFromDisk(raw, t).events = EventsOr(raw)
              /\ LoadFromDisk(raw, t).lastFetched = LastFetchedOr(raw, t)
        /\ "disk" \in LoadFromDisk(raw, t).read
           => (~useNeon \/ raw = Null \/ ~Parses(raw))
        /\ "pg" \in LoadFromDisk(raw, t).read => useNeon
        /\ (~(useNeon /\ raw # Null /\ Parses(raw)) /\ disk # Absent /\ Parses(disk))
           => /\ LoadFromDisk(raw, t).events = EventsOr(disk)
              /\ LoadFromDisk(raw, t).lastFetched = LastFetchedOr(disk, t)

\* the store loaded a row without an event list while the snapshot file holds
\* a snapshot with an event: the cache is the row's (empty), not the file's
C18_Witness ==
    /\ useNeon
    /\ pgRows = <<NoEventsDoc>>
    /\ disk = OldDoc
    /\ initialized
    /\ loadsStarted = 1
    /\ timersStarted = 1
    /\ cachedEvents = <<>>
    /\ lastFetched = NoEventsDoc.lastFetched

\* C19: no backend failure escapes.  A suspended load always completes; the
\* step that completes the load of initStore leaves the store initialized with
\* its timer started, and leaves the in-memory snapshot as it was when no
\* backend holds a readable snapshot (store unavailable, no row or a row that
\* does not parse; file missing or not valid JSON); a save whose store insert
\* and file write both fail still returns, with the result of a success.
C19_BackendFailuresContained ==
    /\ [](pendingLoads > 0
          => ENABLED (LoadResolve /\ initialized' /\ intervalHandle' # Null))
    /\ [][timersStarted' = timersStarted + 1
          => /\ initialized'
             /\ intervalHandle' = Timer(timersStarted')
             /\ timersStarted' \in activeTimers'
             /\ ((/\ \A raw \in PgGetResults : ~useNeon \/ raw = Null \/ ~Parses(raw)
                  /\ disk = Absent \/ ~Parses(disk))
                 => UNCHANGED memory)]_vars
    /\ [](\A p \in Slots :
            /\ inv[p].pc \in {"keep_pg", "repl_pg"}
               => ENABLED (SavePg(p) /\ pgRows' = pgRows)
            /\ inv[p].pc \in {"keep_write", "repl_write"}
               => ENABLED (/\ SaveWrite(p)
                           /\ disk' = disk
                           /\ inv'[p].pc = "done"
                           /\ inv'[p].result.tag = "value"
                           /\ inv'[p].result.ok))
    /\ [](shut.pc = "pg" => ENABLED (ShutdownPg /\ pgRows' = pgRows))
    /\ [](shut.pc = "write" => ENABLED (ShutdownWrite /\ disk' = disk))

\* initStore ran a second time, after a shutdown, with a fetched event in the
\* cache and nothing readable in either backend: the cache is as it was
C19_Witness ==
    /\ useNeon
    /\ pgRows = <<Garbage>>
    /\ disk = Garbage
    /\ initialized
    /\ loadsStarted = 2
    /\ pendingLoads = 0
    /\ intervalHandle # Null
    /\ Len(cachedEvents) = 1

\* C20: a load reads back what saveToDisk wrote: the step that completes the
\* load of initStore either leaves the in-memory snapshot as it is or sets it
\* to the event list and the lastFetched value (a timestamp or null) of a
\* document held by the snapshot file or the external store.
C20_RoundTrip ==
    [][timersStarted' = timersStarted + 1
       => \/ UNCHANGED memory
          \/ \E doc \in {disk} \cup {pgRows[k] : k \in {Len(pgRows)} \ {0}} :
                /\ doc # Absent
                /\ Parses(doc)
                /\ cachedEvents' = doc.events
                /\ lastFetched' = doc.lastFetched]_vars

\* C21: on the replace path with the external store enabled, the assignment
\* is followed by the insert into the external store, the insert - done or
\* failed - by the write of the snapshot file, and the invocation returns its
\* success result only from that write; the insert can fail and the write can
\* then be performed.  Without the external store the assignment is followed
\* by the write of the file.
C21_WriteThroughAll ==
    /\ [][\A p \in Slots :
            /\ (inv[p].pc \in {"repl_stat", "repl_copy"}
                /\ inv'[p].pc \notin {"repl_stat", "repl_copy"})
               => inv'[p].pc = (IF useNeon THEN "repl_pg" ELSE "repl_write")
            /\ (inv[p].pc = "repl_pg" /\ inv'[p] # inv[p])
               => inv'[p].pc = "repl_write"
            /\ (inv[p].pc \in {"repl_stat", "repl_copy", "repl_pg"}
                /\ inv'[p] # inv[p])
               => inv'[p].pc # "done"]_vars
    /\ [](\A p \in Slots :
            /\ inv[p].pc = "repl_pg"
               => ENABLED (SavePg(p) /\ pgRows' = pgRows /\ inv'[p].pc = "repl_write")
            /\ inv[p].pc = "repl_write"
               => ENABLED (SaveWrite(p) /\ disk' = inv[p].payload))

\* an invocation replaced the cache and returned; its insert into the
\* external store failed and the snapshot file holds its payload
C21_Witness ==
    \E p \in Slots :
        /\ useNeon
        /\ inv[p].pc = "done"
        /\ inv[p].result = OkResult(1)
        /\ disk = inv[p].payload
        /\ \A k \in 1..Len(pgRows) : pgRows[k] # inv[p].payload

\* C22: when an invocation fetched a non-empty calendar and has returned
\* while no backend holds its snapshot (the insert and the file write both
\* failed), its result is {ok: true, count} with the number of fetched events,
\* the cache holds the fetched events with the lastFetched of that
\* assignment, and getEvents serves them.
C22_PersistFailureNonFatal ==
    \A p \in Slots :
        (/\ inv[p].pc = "done"
         /\ Len(inv[p].formatted) > 0
         /\ disk # inv[p].payload
         /\ \A k \in 1..Len(pgRows) : pgRows[k] # inv[p].payload)
        => /\ inv[p].result = OkResult(Len(inv[p].formatted))
           /\ cachedEvents = inv[p].formatted
           /\ lastFetched = inv[p].payload.lastFetched
           /\ lastFetched # Null
           /\ getEvents.list = inv[p].formatted

\* the initial fetch returned {ok: true, count: 1} and neither backend holds
\* anything
C22_Witness ==
    \E p \in Slots :
        /\ inv[p].pc = "done"
        /\ inv[p].result = OkResult(1)
        /\ Len(inv[p].formatted) = 1
        /\ cachedEvents = inv[p].formatted
        /\ disk = Absent
        /\ pgRows = <<>>

C29_RoomExtraction ==
    (Len(cachedEvents) = 1 /\ upstream \in TitledFeeds)
    => LET s == upstream[1].summary
           de == RunEnd(s, 2, Digits)
           leading == /\ Len(s) >= 3
                      /\ s[1] = "["
                      /\ de >= 2
                      /\ de + 1 <= Len(s)
                      /\ s[de + 1] = "]"
       IN  /\ (/\ leading
               /\ de + 3 <= Len(s)
               /\ s[de + 2] = " "
               /\ s[de + 3] # " ")
              => /\ cachedEvents[1].room = Slice(s, 2, de)
                 /\ cachedEvents[1].subject = Slice(s, de + 3, Len(s))
           /\ ~leading => (cachedEvents[1].room = <<>> /\ cachedEvents[1].subject = s)

\* C30: once the store has fetched the calendar of the upstream server, the
\* cache holds one event per VEVENT entry of the calendar and nothing for
\* other entries, in the order of the entries: the cache is as long as the
\* number of VEVENT entries, and the event made from the VEVENT entry at
\* position k stands at the rank of k among the VEVENT positions, with that
\* entry's uid as id.
C30_OnePerEventInOrder ==
    lastFetched # Null
    => /\ Len(cachedEvents)
            = Cardinality({k \in 1..Len(upstream) : upstream[k].type = "VEVENT"})
       /\ \A k \in 1..Len(upstream) :
             upstream[k].type = "VEVENT"
             => cachedEvents[Cardinality({j \in 1..k : upstream[j].type = "VEVENT"})].id
                   = upstream[k].uid

\* the store fetched a calendar of two events around a time zone definition
\* and holds the two events, in the order of the calendar
C30_Witness ==
    /\ upstream = <<EvB, EvTZ, EvA>>
    /\ Len(cachedEvents) = 2
    /\ cachedEvents[1].id = EvB.uid
    /\ cachedEvents[2].id = EvA.uid
    /\ \E p \in Slots : inv[p].pc = "done" /\ inv[p].result = OkResult(2)


(***************************************************************************)
(* Reads of the endpoint: requests without refresh, each bound omitted,    *)
(* empty, a date that touches an event, or not a date; the store is        *)
(* initialized by the first request (no external store, so initStore       *)
(* returns in the arrival step), the file holds nothing or an old          *)
(* snapshot, and the upstream serves nothing, two events, or an event      *)
(* formatEvents cannot format.                                             *)
(***************************************************************************)
DateParams == {Undefined, Str(""), Day(2), Day(3), Str("soon")}

ReadQuery(start, end) ==
    [refresh |-> Undefined, token |-> Undefined, headerToken |-> Undefined,
     configuredToken |-> Undefined, fetchRetries |-> Undefined,
     start |-> start, end |-> end]

ReadFeeds == {<<>>, <<EvA, EvB>>, <<EvBad>>}

FetchRead(p) == Fetched(p, ReadFeeds)

InitRead ==
    /\ FreshProcess
    /\ upstream = <<>>
    /\ useNeon = FALSE
    /\ diskWritable = TRUE
    /\ envRetries = Num(ColdRetries)
    /\ disk \in {Absent, OldDoc}
    /\ bak = Absent
    /\ pgRows = <<>>

\* a request that arrives while no fetchAndStore is in progress
QuietArrive(q) == NoneInFlight /\ Arrive(q)

NextRead ==
    \/ \E start \in DateParams, end \in DateParams : QuietArrive(ReadQuery(start, end))
    \/ Handle
    \/ GuardTimeout
    \/ GuardFetched
    \/ Forget
    \/ \E p \in Slots : FetchRead(p)
    \/ \E p \in Slots : BackupStat(p)
    \/ \E p \in Slots : BackupCopy(p)
    \/ \E p \in Slots : SaveWrite(p)
    \/ \E p \in Slots : SettleDetached(p)

SpecRead == InitRead /\ [][NextRead]_vars

\* C24: a read answered 200 returns exactly the events the handler read whose
\* interval is not wholly before start and not wholly after end, in the order
\* read: an event is left out iff start is given and the event ends before it,
\* or end is given and the event starts after it; an omitted or empty bound
\* restricts nothing.
C24_RangeRead ==
    (req.pc = "done" /\ req.response.status = 200)
    => LET q == req.query
           kept == {k \in 1..Len(req.events) :
                      /\ ~(Truthy(q.start) /\ req.events[k].end.dateTime < q.start.n)
                      /\ ~(Truthy(q.end) /\ req.events[k].start.dateTime > q.end.n)}
           value == req.response.value
       IN  /\ Len(value) = Cardinality(kept)
           /\ \A k \in kept :
                value[Cardinality({j \in kept : j <= k})] = req.events[k]
           /\ (~Truthy(q.start) /\ ~Truthy(q.end)) => value = req.events

\* two cached events, the bounds touch the end of the first and the start of
\* the second: both are returned
C24_Witness ==
    /\ req.pc = "done"
    /\ req.response.status = 200
    /\ Len(req.events) = 2
    /\ req.query.start = Day(2)
    /\ req.query.end = Day(3)
    /\ req.response.value = req.events

\* C25: a request answered 400 or 401 has started no fetchAndStore and has
\* left the in-memory snapshot and the backends as they were when it arrived.
C25_ValidationLeavesCache ==
    (req.pc = "done" /\ req.response.status \in {400, 401})
    => /\ req.fetches = 0
       /\ <<cachedEvents, lastFetched, disk, bak, pgRows>> = req.pre

\* C28: a read that finds the list empty starts one fetchAndStore with one
\* attempt, and from then on the timeout can always end the wait; the request
\* is answered from the list the fetch stored when the fetch returned ok
\* first, and from the list read before otherwise - 200 when the bounds are
\* dates.
C28_ColdGuard ==
    /\ [][(req.pc = "init" /\ req'.pc = "race")
          => /\ Len(cachedEvents) = 0
             /\ Cardinality({p \in Slots : inv[p].pc = "free" /\ inv'[p].pc # "free"}) = 1
             /\ inv[req'.slot].pc = "free"
             /\ inv'[req'.slot].origin = "cold"
             /\ inv'[req'.slot].retries = Num(ColdRetries)
             /\ \A p \in Slots : p # req'.slot => inv'[p].pc = inv[p].pc]_vars
    /\ [][(req.pc = "init" /\ req'.pc = "done" /\ req'.response.status \in {200, 400})
          => Len(cachedEvents) > 0 /\ inv' = inv]_vars
    /\ [](req.pc = "race" => ENABLED GuardTimeout)
    /\ [][(req.pc = "race" /\ req'.pc # "race")
          => /\ req'.pc = "done"
             /\ req'.response.status = IF BadDates(req.query) THEN 400 ELSE 200
             /\ req'.response.status = 200
                => req'.response.value =
                     RangeFilter(IF /\ inv' # inv
                                    /\ inv[req.slot].result.tag = "value"
                                    /\ inv[req.slot].result.ok
                                 THEN cachedEvents ELSE <<>>,
                                 parseDateQuery(req.query.start),
                                 parseDateQuery(req.query.end))]_vars

\* the guard's fetch stored two events and the response holds them
C28_Witness ==
    /\ req.pc = "done"
    /\ req.slot # 0
    /\ req.response.status = 200
    /\ Len(req.events) = 2
    /\ req.events = cachedEvents
    /\ req.response.value = cachedEvents


(***************************************************************************)
(* Forced refreshes: requests with refresh=1 or refresh=False (a plain     *)
(* read), with and without a configured token, the token given in the      *)
(* query, in the header, in both or in neither, in the right or the wrong  *)
(* case, and fetchRetries omitted, 0 or 2.  The snapshot directory is      *)
(* read-only.                                                              *)
(***************************************************************************)
RefreshParams == {Str("1"), Str("False")}
ConfiguredTokens == {Undefined, Str("secret")}
QueryTokens == {Undefined, Str(""), Str("secret"), Str("SECRET")}
HeaderTokens == {Undefined, Str("secret")}
QueryRetries == {Undefined, Num(0), Num(2)}

RefreshQueries ==
    [refresh : RefreshParams, token : QueryTokens, headerToken : HeaderTokens,
     configuredToken : ConfiguredTokens, fetchRetries : QueryRetries,
     start : {Undefined}, end : {Undefined}]

InitRefresh ==
    /\ FreshProcess
    /\ upstream = <<>>
    /\ useNeon = FALSE
    /\ diskWritable = FALSE
    /\ envRetries = Num(ColdRetries)
    /\ disk \in {Absent, OldDoc}
    /\ bak = Absent
    /\ pgRows = <<>>

NextRefresh ==
    \/ \E q \in RefreshQueries : QuietArrive(q)
    \/ Handle
    \/ GuardTimeout
    \/ GuardFetched
    \/ Forget
    \/ \E p \in Slots : FetchRead(p)
    \/ \E p \in Slots : BackoffDone(p)
    \/ \E p \in Slots : BackupStat(p)
    \/ \E p \in Slots : BackupCopy(p)
    \/ \E p \in Slots : SaveWrite(p)
    \/ \E p \in Slots : SettleDetached(p)

SpecRefresh == InitRefresh /\ [][NextRefresh]_vars

\* C26: a refresh request is answered 202 and its branch starts one
\* fetchAndStore iff no token is configured or the supplied token (the query
\* parameter, the header when the query has none) is the configured token
\* character for character; otherwise it is answered 401 and its branch starts
\* no fetchAndStore.
C26_RefreshAuthorization ==
    /\ []((req.pc = "done" /\ IsRefresh(req.query))
          => IF \/ req.query.configuredToken = Undefined
                \/ (IF req.query.token \in {Undefined, Str("")}
                    THEN req.query.headerToken
                    ELSE req.query.token) = req.query.configuredToken
             THEN req.response.status = 202 /\ req.slot # 0
             ELSE req.response.status = 401 /\ req.slot = 0)
    /\ [][(req.pc = "init" /\ req'.pc = "done" /\ IsRefresh(req.query))
          => IF req'.response.status = 202
             THEN /\ inv[req'.slot].pc = "free"
                  /\ inv'[req'.slot].origin = "refresh"
                  /\ \A p \in Slots : p # req'.slot => inv'[p].pc = inv[p].pc
             ELSE inv' = inv]_vars

\* a token is configured, the query token is empty and the header carries the
\* configured token: answered 202
C26_Witness ==
    /\ req.pc = "done"
    /\ req.query.refresh = Str("1")
    /\ req.query.configuredToken = Str("secret")
    /\ req.query.token = Str("")
    /\ req.query.headerToken = Str("secret")
    /\ req.response.status = 202
    /\ inv[req.slot].origin = "refresh"

C31_StartNotAfterEnd ==
    \A k \in 1..Len(cachedEvents) :
        cachedEvents[k].start.dateTime <= cachedEvents[k].end.dateTime

\* C32: at most one recurring timer is active, a timer is active only while
\* initialized is true, and the handle is that of the active timer: no
\* timer outlives shutdownStore and no handle of a running timer is lost.
C32_OneTimerWhileInitialized ==
    /\ Cardinality(activeTimers) <= 1
    /\ activeTimers # {} => initialized
    /\ \A k \in activeTimers : intervalHandle = Timer(k)

(***************************************************************************)
(* A request that arrives while another caller's initStore is suspended:   *)
(* the external store is enabled and holds nothing or an old snapshot,     *)
(* initStore is called by the request itself or by a caller before it.     *)
(***************************************************************************)
InitSecond ==
    /\ FreshProcess
    /\ upstream = <<>>
    /\ useNeon = TRUE
    /\ diskWritable = FALSE
    /\ envRetries = Num(ColdRetries)
    /\ disk = Absent
    /\ bak = Absent
    /\ pgRows \in {<<>>, <<OldDoc>>}

NextSecond ==
    \/ QuietInitStore
    \/ LoadResolve
    \/ QuietArrive(ReadQuery(Undefined, Undefined))
    \/ Handle
    \/ GuardTimeout
    \/ GuardFetched
    \/ Forget
    \/ \E p \in Slots : FetchRead(p)
    \/ \E p \in Slots : BackupStat(p)
    \/ \E p \in Slots : SavePg(p)
    \/ \E p \in Slots : SaveWrite(p)
    \/ \E p \in Slots : SettleDetached(p)

SpecSecond == InitSecond /\ [][NextSecond]_vars

\* C33: when initStore has returned to the handler no backend load is still
\* suspended, so the list the handler reads next comes after the load.
C33_ReturnAfterLoad ==
    req.pc = "init" => pendingLoads = 0

(***************************************************************************)
(* Overlapping invocations whose writes all succeed: the snapshot file is  *)
(* the only backend, its directory is writable and no copy or write fails; *)
(* the initial fetch and the timer ticks overlap freely.                   *)
(***************************************************************************)
SaveWriteOk(p) == SaveWrite(p) /\ disk' = inv[p].payload

InitOrder ==
    /\ FreshProcess
    /\ upstream = <<>>
    /\ useNeon = FALSE
    /\ diskWritable = TRUE
    /\ envRetries = Num(ColdRetries)
    /\ disk = Absent
    /\ bak = Absent
    /\ pgRows = <<>>

NextOrder ==
    \/ InitStore
    \/ \E k \in 1..(MaxShutdowns + 2) : Tick(k)
    \/ \E p \in Slots : FetchResolve(p)
    \/ \E p \in Slots : BackupStatOk(p)
    \/ \E p \in Slots : BackupCopyOk(p)
    \/ \E p \in Slots : SaveWriteOk(p)
    \/ \E p \in Slots : Settle(p)

SpecOrder == InitOrder /\ [][NextOrder]_vars

\* C34: while no fetchAndStore and no shutdownStore is in progress, the
\* snapshot file, once written, holds the in-memory snapshot (the same events
\* and the same lastFetched).
C34_BackendEqualsMemory ==
    (NoneInFlight /\ shut.pc = "idle" /\ disk # Absent)
    => disk = Stringify(cachedEvents, lastFetched)

\* C35: a fetchAndStore invocation that replaced the snapshot returns
\* {ok: true, count} with count the number of events it formatted itself.
C35_CountIsOwn ==
    \A p \in Slots :
        (/\ inv[p].pc = "done"
         /\ inv[p].result.tag = "value"
         /\ inv[p].result.ok
         /\ "keptPrevious" \notin DOMAIN inv[p].result)
        => inv[p].result.count = Len(inv[p].formatted)

(***************************************************************************)
(* Loads of snapshots with and without a date: the backends hold nothing,  *)
(* a snapshot the store wrote, or a document with events whose lastFetched *)
(* is null or missing (written by another tool); the file cannot be        *)
(* written.                                                                *)
(***************************************************************************)
UndatedDoc == Stringify(formatEvents(<<EvA>>), Null)
EventsOnlyDoc == [events |-> formatEvents(<<EvA>>)]

InitUndated ==
    /\ FreshProcess
    /\ upstream = <<>>
    /\ useNeon \in BOOLEAN
    /\ diskWritable = FALSE
    /\ envRetries = Num(ColdRetries)
    /\ disk \in {Absent, OldDoc, UndatedDoc, EventsOnlyDoc}
    /\ bak = Absent
    /\ pgRows \in {<<>>, <<OldDoc>>, <<UndatedDoc>>, <<EventsOnlyDoc>>}

\* the initial fetch runs only when the load left the cache empty, that is
\* when there was no file: backupExistingStorage has nothing to copy
NextUndated ==
    \/ QuietInitStore
    \/ LoadResolve
    \/ \E p \in Slots : FetchResolve(p)
    \/ \E p \in Slots : BackupStat(p)
    \/ \E p \in Slots : SavePg(p)
    \/ \E p \in Slots : SaveWrite(p)
    \/ \E p \in Slots : Settle(p)

SpecUndated == InitUndated /\ [][NextUndated]_vars

\* C36: whenever the in-memory cache holds events lastFetched is a timestamp:
\* a step that makes the cache non-empty leaves lastFetched set, and no step
\* sets lastFetched back to null.
C36_NonEmptyHasTimestamp ==
    /\ [](Len(cachedEvents) > 0 => lastFetched # Null /\ lastFetched.type = "number")
    /\ [][(Len(cachedEvents) = 0 /\ Len(cachedEvents') > 0)
          => lastFetched' # Null /\ lastFetched'.type = "number"]_vars
    /\ [][lastFetched # Null => lastFetched' # Null]_vars

\* the load of a document with events and no date has set lastFetched to the
\* time of the load
C36_Witness ==
    /\ Len(cachedEvents) > 0
    /\ \A p \in Slots : inv[p].pc \in {"free", "fetch"}
    /\ \/ ~useNeon /\ disk \in {UndatedDoc, EventsOnlyDoc}
       \/ useNeon /\ pgRows \in {<<UndatedDoc>>, <<EventsOnlyDoc>>} /\ disk = Absent
    /\ lastFetched.type = "number"
    /\ lastFetched.value >= 1

\* C37: a 200 response reports as fetchedAt the lastFetched of the in-memory
\* snapshot and as value the range filter of the events of that snapshot.
C37_ResponseOfOneSnapshot ==
    [][(req.pc # "done" /\ req'.pc = "done" /\ req'.response.status = 200)
       => /\ req'.response.fetchedAt = lastFetched
          /\ req'.response.value =
               RangeFilter(cachedEvents, parseDateQuery(req.query.start),
                           parseDateQuery(req.query.end))]_vars

\* C38: the initial fetch that initStore started and the cold-cache fetch of
\* the request are never both waiting for the upstream server.
C38_OneFetchPerRequest ==
    ~ \E p \in Slots, q \in Slots :
          /\ inv[p].origin = "initStore" /\ inv[p].pc = "fetch"
          /\ inv[q].origin = "cold" /\ inv[q].pc = "fetch"

(***************************************************************************)
(* Every kind of request: reads with and without a bound that is not a     *)
(* date, refreshes with the right and the wrong token, requests to a       *)
(* deployment without PUBLIC_CALENDAR_URL; the external store enabled      *)
(* (and empty) or not; the snapshot file absent, written by the store, or  *)
(* holding an event without start and end (written by another tool).       *)
(* FairRespond adds that the handler goes on when it can: the answer of    *)
(* the external store arrives, the continuation after initStore runs, the  *)
(* timeout of the guard fires.                                             *)
(***************************************************************************)
BrokenDoc == [events |-> <<[id |-> "x"]>>, lastFetched |-> Time(0)]

RespondQueries ==
    {ReadQuery(Undefined, Undefined),
     ReadQuery(Str("soon"), Undefined),
     [ReadQuery(Undefined, Undefined) EXCEPT
        !.refresh = Str("1"), !.configuredToken = Str("secret"),
        !.token = Str("secret")],
     [ReadQuery(Undefined, Undefined) EXCEPT
        !.refresh = Str("1"), !.configuredToken = Str("secret"),
        !.headerToken = Str("SECRET")]}

InitRespond ==
    /\ FreshProcess
    /\ upstream = <<>>
    /\ useNeon \in BOOLEAN
    /\ diskWritable = FALSE
    /\ envRetries = Num(ColdRetries)
    /\ disk \in {Absent, OldDoc, BrokenDoc}
    /\ bak = Absent
    /\ pgRows = <<>>

NextRespond ==
    \/ \E q \in RespondQueries : QuietArrive(q)
    \/ ArriveUnconfigured
    \/ LoadResolve
    \/ Handle
    \/ GuardTimeout
    \/ GuardFetched
    \/ Forget
    \/ \E p \in Slots : FetchRead(p)
    \/ \E p \in Slots : BackupStat(p)
    \/ \E p \in Slots : BackupCopy(p)
    \/ \E p \in Slots : SavePg(p)
    \/ \E p \in Slots : SaveWrite(p)
    \/ \E p \in Slots : SettleDetached(p)

SpecRespond == InitRespond /\ [][NextRespond]_vars

FairRespond ==
    /\ SpecRespond
    /\ WF_vars(LoadResolve)
    /\ WF_vars(Handle)
    /\ WF_vars(GuardTimeout)

\* C39: a request is answered, once, with status 200, 202, 400, 401 or 500: the
\* response is set in one step and stays until the next request, a request
\* being handled is eventually answered, and an exception thrown while handling
\* gives the 500 response with error and details.
C39_OneResponse ==
    /\ [](req.pc = "done" => req.response.status \in {200, 202, 400, 401, 500})
    /\ [](req.pc # "done" => req.response = [status |-> 0])
    /\ [][req.pc = "done"
          => \/ req'.pc = "done" /\ req'.response = req.response
             \/ req' = NoRequest]_vars
    /\ []((req.pc = "done" /\ req.response.status = 500)
          => /\ DOMAIN req.response = {"status", "error", "details"}
             /\ FilterThrows(req.events))
    /\ []((req.pc = "done" /\ req.response.status = 200) => ~FilterThrows(req.events))
    /\ (req.pc \in {"init", "load", "race"}) ~> (req.pc = "done")

\* a read of a cache loaded from a file with a malformed event: answered 500
C39_Witness ==
    /\ req.pc = "done"
    /\ req.response = Failure(FilterError)
    /\ disk = BrokenDoc

=============================================================================
